---------------------------- MODULE Spec2Model ----------------------------
(***************************************************************************)
(* A model of the sweep python client (src/sweep-py/sweep/sweep.py):       *)
(*                                                                         *)
(*   - the JSON-RPC codec (RpcRequest, RpcResult, RpcError),               *)
(*   - the full duplex RpcPeer: two peers "a" and "b" serving the two ends *)
(*     of one connected stream (as in Tests.test_rpc),                     *)
(*   - the Event primitive used for the writer wake-up and for the         *)
(*     notification stream of a peer,                                      *)
(*   - the Sweep client's item store and event translation, talking to a   *)
(*     sweeper process.                                                    *)
(*                                                                         *)
(* asyncio is single threaded and cooperative: every action below is one   *)
(* run of a task between two suspension points (or one synchronous public  *)
(* call), so it is atomic.                                                 *)
(***************************************************************************)
EXTENDS Integers, Sequences, FiniteSets, TLC

VARIABLES
    \* ---- RpcPeer.__slots__ (one value per peer)
    handlers,           \* __handlers: method -> handler
    requests,           \* __requests: ids of the unanswered requests (keys of the map)
    requests_next_id,   \* __requests_next_id
    write_queue,        \* __write_queue
    write_notify,       \* __write_notify: Event waking up the writer
    is_terminated,      \* __is_terminated
    serve_task,         \* __serve_task: the gather() future of reader and writer
    events,             \* __events: Event of received requests with id = None
    \* ---- objects and tasks the peer creates
    futures,            \* the Future created by call(), by request id
    reader,             \* position of the __reader task
    writer,             \* position of the __writer task
    serve,              \* position/outcome of the serve() coroutine
    tasks,              \* rpc-handler-* tasks (__handle_request coroutines)
    stream,             \* everything a peer's writer has put on its StreamWriter
    rpos,               \* how many messages of the other's stream the reader consumed
    closed,             \* writer.close() was called
    \* ---- consumers of the notification stream
    awaiter,            \* a task awaiting `peer.events` (Event.__await__)
    iter,               \* a RpcPeerIter over the peer and the task iterating it
    \* ---- bookkeeping for the properties
    submitted,          \* history: every message passed to __submit_message
    last                \* the exception the step raised to the application, if any

rpcvars == <<handlers, requests, requests_next_id, write_queue, write_notify,
             is_terminated, serve_task, events, futures, reader, writer, serve,
             tasks, stream, rpos, closed, awaiter, iter, submitted, last>>

VARIABLES
    \* ---- Sweep.__slots__
    items,              \* __items: window -> the caller's items, in store order
    sweep_slots,        \* further slots: __field_resolved and __view_resolved (as
                        \* resolved[kind]), __field_resolver and __view_resolver
                        \* (resolver[kind]: it is not None), the peer's
                        \* is_terminated, an items_extend task that sends
                        \* several batches (extend), the task
                        \* in a render_suppress scope, __window_uid_count, and
                        \* the quick_select call in progress with its locals,
                        \* __size, and the task that called size()
    window_uid_current, \* __window_uid_current
    binds,              \* __binds: the tags that have a handler
    peer_iter,          \* __peer_iter: notifications received and not yet consumed
    \* ---- the client's peer and its connection to the sweeper
    peer_requests,      \* calls of the client waiting for (or holding) their result
    peer_next_id,       \* request id of the next call
    to_sweeper,         \* requests on their way to the sweeper, in order
    to_client,          \* results and notifications on their way to the client, in order
    \* ---- the sweeper process
    sweeper_items,      \* window -> the JSON items of its list
    sweeper_current,    \* the window shown
    sweeper_binds,      \* the tags bound to a key
    sweeper_emitted,    \* number of notifications sent
    \* ---- bookkeeping
    sweep_calls,        \* how often the application called each operation
    sweep_log,          \* history: notifications sent, and those event_iter has
                        \* taken, the store positions item_update has replaced
    given               \* the items the step handed to the application, if any

sweepvars == <<items, sweep_slots, window_uid_current, binds, peer_iter, peer_requests,
               peer_next_id, to_sweeper, to_client, sweeper_items, sweeper_current,
               sweeper_binds, sweeper_emitted, sweep_calls, sweep_log, given>>

VARIABLES
    \* ---- an Event of the application (Tests.test_event) and its users
    event_obj,              \* the Event: _handlers and _futures
    event_futures,      \* the futures made by `await event`, by number
    event_log           \* history: values fired, values each handler was called
                        \* with, handlers ever subscribed, the exception the
                        \* last fire raised to its caller ("": none)

eventvars == <<event_obj, event_futures, event_log>>

vars == <<rpcvars, sweepvars, eventvars>>

-----------------------------------------------------------------------------
(* Bounds of the model                                                     *)

\* calls one peer may start (caps __requests_next_id)
MaxCalls == 2
\* notifications one peer may send
MaxNotify == 1
\* items_extend calls of the application
MaxExtend == 2
\* items_current / items_marked calls of the application
MaxQuery == 1
\* notifications the sweeper sends
MaxEmit == 2
\* notifications sent to a peer whose event stream is consumed
MaxEvents == 2
\* lines that are no RPC message written to a peer
MaxRaw == 2
\* responses of its own making the other end writes
MaxReply == 2
\* times the application fires its Event, and futures it awaits on it
MaxFire == 3
MaxAwait == 2

-----------------------------------------------------------------------------
(* Values                                                                  *)

Peers == {"a", "b"}
Other(p) == IF p = "a" THEN "b" ELSE "a"

\* Python's None and a present value x (Optional)
None == <<>>
Some(x) == <<x>>

\* RpcParams = list | dict | None; the argument values are strings
NoParams == [kind |-> "none", names |-> <<>>, args |-> <<>>]
ListParams(args) == [kind |-> "list", names |-> <<>>, args |-> args]
DictParams(names, args) == [kind |-> "dict", names |-> names, args |-> args]

\* a JSON object is a function from its keys
EmptyObj == <<>>
Field(cond, key, value) == IF cond THEN key :> value ELSE EmptyObj
Get(obj, key) == IF key \in DOMAIN obj THEN Some(obj[key]) ELSE None

Range(s) == {s[i] : i \in DOMAIN s}
RemoveAt(s, i) == SubSeq(s, 1, i - 1) \o SubSeq(s, i + 1, Len(s))

-----------------------------------------------------------------------------
(* RPC codec                                                               *)

RpcRequest(method, params, id) ==
    [type |-> "request", method |-> method, params |-> params, id |-> id]

RpcResult(result, id) ==
    [type |-> "result", result |-> result, id |-> id]

RpcError(code, message, data, id) ==
    [type |-> "error", code |-> code, message |-> message, data |-> data, id |-> id]

parse_error(data, id) == RpcError(-32700, "Parse error", data, id)
invalid_request(data, id) == RpcError(-32600, "Invalid request", data, id)
method_not_found(data, id) == RpcError(-32601, "Method not found", data, id)
invalid_params(data, id) == RpcError(-32602, "Invalid params", data, id)
internal_error(data, id) == RpcError(-32603, "Internal error", data, id)

RpcRequest_serialize(m) ==
    ("method" :> m.method)
        @@ Field(m.params.kind # "none", "params", m.params)
        @@ Field(m.id # None, "id", m.id[1])

RpcResult_serialize(m) ==
    ("result" :> m.result) @@ Field(m.id # None, "id", m.id[1])

RpcError_serialize(m) ==
    ("error" :> (("code" :> m.code) @@ ("message" :> m.message)
                    @@ Field(m.data # None, "data", m.data[1])))
        @@ Field(m.id # None, "id", m.id[1])

serialize(m) ==
    CASE m.type = "request" -> RpcRequest_serialize(m)
      [] m.type = "result" -> RpcResult_serialize(m)
      [] m.type = "error" -> RpcError_serialize(m)

\* each deserialize gives Some(message) or None
RpcRequest_deserialize(obj) ==
    IF "method" \notin DOMAIN obj THEN None
    ELSE IF "params" \notin DOMAIN obj
         THEN Some(RpcRequest(obj["method"], NoParams, Get(obj, "id")))
    ELSE IF obj["params"].kind \in {"list", "dict"}
         THEN Some(RpcRequest(obj["method"], obj["params"], Get(obj, "id")))
    ELSE None

RpcResult_deserialize(obj) ==
    IF "result" \notin DOMAIN obj THEN None
    ELSE Some(RpcResult(obj["result"], Get(obj, "id")))

RpcError_deserialize(obj) ==
    IF "error" \notin DOMAIN obj THEN None
    ELSE LET error == obj["error"] IN
         IF "code" \notin DOMAIN error \/ "message" \notin DOMAIN error THEN None
         ELSE Some(RpcError(error["code"], error["message"], Get(error, "data"),
                            Get(obj, "id")))

\* a JSON value that is no object (a string, a number, a list) where the
\* codec expects one: it has no method get()
Scalar(text) == ("scalar" :> text)
IsDict(value) == "scalar" \notin DOMAIN value

\* the chain below raises AttributeError: obj is no request and its "error"
\* member is neither null nor an object, so `error.get("code")` fails
deserialize_raises(obj) ==
    /\ RpcRequest_deserialize(obj) = None
    /\ "error" \in DOMAIN obj
    /\ ~IsDict(obj["error"])

\* RpcRequest.deserialize(obj) or RpcError.deserialize(obj) or RpcResult.deserialize(obj)
deserialize(obj) ==
    IF RpcRequest_deserialize(obj) # None THEN RpcRequest_deserialize(obj)
    ELSE IF RpcError_deserialize(obj) # None THEN RpcError_deserialize(obj)
    ELSE RpcResult_deserialize(obj)

-----------------------------------------------------------------------------
(* Handlers the applications register (Tests.test_rpc and the like)       *)

\* name(): returns the peer's name; sleep(): async, returns "done" after a
\* suspension; fail(): raises, either RuntimeError("boom") or an RpcError of
\* its own making (RpcError.invalid_params(...) has id None, an RpcError
\* propagated from a nested call carries that call's id). No application
\* registers a handler for "missing".
Methods == {"name", "sleep", "fail", "missing"}
Handlers == {"name", "sleep", "fail"}

\* the handlers each application registers, in the order of its program
Registrations(p) == IF p = "a" THEN <<"name", "sleep", "fail">> ELSE <<"name">>

\* the roles of Tests.test_rpc: b calls and notifies, a consumes its notifications
Callers == {"b"}
Notifiers == {"b"}
Consumers == {"a"}

\* parameter names of a handler's signature
Signature(h) == <<>>

\* the ids an RpcError raised inside a handler may carry
RaisedIds == {None} \cup {Some(i) : i \in 0..MaxCalls - 1}

\* what the applications pass to call()/notify(): method, *args, **kwargs
Input(method, args, names, kwvals) ==
    [method |-> method, args |-> args, names |-> names, kwvals |-> kwvals]

CallInputs ==
    {Input(m, <<>>, <<>>, <<>>) : m \in Methods}
        \cup {Input("name", <<"1">>, <<>>, <<>>),           \* name(1): TypeError
              Input("name", <<"1">>, <<"b">>, <<"2">>)}     \* args and kwargs mixed

NotifyInputs ==
    {Input(m, <<>>, <<>>, <<>>) : m \in {"name", "fail", "missing"}}
        \cup {Input("name", <<"1">>, <<"b">>, <<"2">>)}

\* handler(*args, **kwargs) binds: no TypeError from the call itself
Binds(h, params) ==
    CASE params.kind = "none" -> Len(Signature(h)) = 0
      [] params.kind = "list" -> Len(params.args) = Len(Signature(h))
      [] params.kind = "dict" -> Range(params.names) = Range(Signature(h))

-----------------------------------------------------------------------------
(* Futures and Events                                                      *)

NoError == RpcError(0, "", None, None)

\* asyncio.Future created by call(); method/params/registered record the call
Future(method, params, registered) ==
    [st |-> "pending", result |-> "", error |-> NoError,
     method |-> method, params |-> params, registered |-> registered]

done(f) == f.st # "pending"
set_result(f, v) == [f EXCEPT !.st = "result", !.result = v]
set_exception(f, e) == [f EXCEPT !.st = "error", !.error = e]
cancel(f) == IF done(f) THEN f ELSE [f EXCEPT !.st = "cancelled"]

\* Event: durable handlers and one-shot futures, named by their owner
Event == [handlers |-> {}, futures |-> {}]
\* Event.__call__: the handlers that return True are kept, every future is taken
Event_call(ev, kept) == [handlers |-> ev.handlers \cap kept, futures |-> {}]
\* Event.cancel
Event_cancel(ev) == [ev EXCEPT !.futures = {}]
\* Event.on
Event_on(ev, h) == [ev EXCEPT !.handlers = @ \cup {h}]
\* Event.__await__
Event_await(ev, f) == [ev EXCEPT !.futures = @ \cup {f}]

Awaiter == [st |-> "none", value |-> RpcRequest("", NoParams, None)]
\* since: how many messages the reader had taken when the iterator was made
Iter == [st |-> "none", events |-> <<>>, yielded |-> <<>>, since |-> 0]

\* how the step ended for the application: a public operation that raised, a
\* terminate() that returned, or nothing
Outcome(op, p, outcome) == [op |-> op, peer |-> p, outcome |-> outcome, error |-> NoError]
\* the public operation raised the RpcError error
Failed(op, p, error) == [op |-> op, peer |-> p, outcome |-> "RpcError", error |-> error]
Quiet == Outcome("", "", "ok")

-----------------------------------------------------------------------------
(* An Event with the handlers of Tests.test_event                          *)

\* total_handler returns True, once_handler returns False, bad_handler raises
EventHandlers == {"total", "once", "bad"}
Keeps == {"total"}
EventRaises == {"bad"}
\* the values fired
EventValues == {5, 3}

EventInit ==
    /\ event_obj = Event
    /\ event_futures = <<>>
    /\ event_log = [fired |-> <<>>, calls |-> [h \in EventHandlers |-> <<>>],
                    subscribed |-> {}, raised |-> ""]

\* variant: the loop without `if future.done(): continue`
CompletedDone(ev, futs, value) ==
    [id \in DOMAIN futs |->
        IF id \in ev.futures THEN [st |-> "result", value |-> value] ELSE futs[id]]

\* the futures after the loop over `futures` in Event.__call__: a future that
\* is done already is skipped, the others get the event as their result
Completed(ev, futs, value) ==
    [id \in DOMAIN futs |->
        IF id \in ev.futures /\ futs[id].st = "pending"
        THEN [st |-> "result", value |-> value] ELSE futs[id]]

\* the futures after Event.cancel(): Future.cancel() on each waiting future
CancelledAll(ev, futs) ==
    [id \in DOMAIN futs |->
        IF id \in ev.futures /\ futs[id].st = "pending"
        THEN [futs[id] EXCEPT !.st = "cancelled"] ELSE futs[id]]

\* the calls of the handlers in Event.__call__: each subscribed handler once
Called(ev, calls, value) ==
    [h \in DOMAIN calls |-> IF h \in ev.handlers THEN Append(calls[h], value) ELSE calls[h]]

event_unchanged == UNCHANGED <<rpcvars, sweepvars>>

\* Event.on(handler)
EventOn(h) ==
    /\ event_obj' = Event_on(event_obj, h)
    /\ event_log' = [event_log EXCEPT !.subscribed = @ \cup {h}]
    /\ UNCHANGED event_futures
    /\ event_unchanged

\* a task starts `await event`: Event.__await__
EventAwait ==
    /\ event_obj' = Event_await(event_obj, Len(event_futures) + 1)
    /\ event_futures' = Append(event_futures, [st |-> "pending", value |-> 0])
    /\ UNCHANGED event_log
    /\ event_unchanged

\* variant: Event.__call__ without its try/except: the exception of a handler
\* ends the call, the handlers and futures not reached yet are not served
EventFireUnguarded(value) ==
    /\ IF event_obj.handlers \cap EventRaises # {}
       THEN /\ event_obj' = [event_obj EXCEPT !.handlers = {}]
            /\ event_log' = [event_log EXCEPT
                    !.fired = Append(@, value),
                    !.raised = "RuntimeError",
                    !.calls = Called([event_obj EXCEPT !.handlers = @ \cap EventRaises],
                                     @, value)]
            /\ UNCHANGED event_futures
       ELSE /\ event_obj' = Event_call(event_obj, Keeps)
            /\ event_futures' = Completed(event_obj, event_futures, value)
            /\ event_log' = [event_log EXCEPT
                    !.fired = Append(@, value),
                    !.raised = "",
                    !.calls = Called(event_obj, @, value)]
    /\ event_unchanged

\* Event.__call__(value)
EventFire(value) ==
    /\ event_obj' = Event_call(event_obj, Keeps)
    /\ event_futures' = Completed(event_obj, event_futures, value)
    /\ event_log' = [event_log EXCEPT
            !.fired = Append(@, value),
            !.raised = "",
            !.calls = Called(event_obj, @, value)]
    /\ event_unchanged

\* Event.cancel()
EventCancel ==
    /\ event_obj' = Event_cancel(event_obj)
    /\ event_futures' = CancelledAll(event_obj, event_futures)
    /\ UNCHANGED event_log
    /\ event_unchanged

\* the task awaiting the future id is cancelled: the future is cancelled and
\* stays in the Event until the next fire
AwaitCancelled(id) ==
    /\ id \in DOMAIN event_futures
    /\ event_futures[id].st = "pending"
    /\ event_futures' = [event_futures EXCEPT ![id].st = "cancelled"]
    /\ UNCHANGED <<event_obj, event_log>>
    /\ event_unchanged

-----------------------------------------------------------------------------
(* RpcPeer                                                                 *)

RpcInit ==
    /\ handlers = [p \in Peers |-> EmptyObj]
    /\ requests = [p \in Peers |-> {}]
    /\ requests_next_id = [p \in Peers |-> 0]
    /\ write_queue = [p \in Peers |-> <<>>]
    /\ write_notify = [p \in Peers |-> Event]
    /\ is_terminated = [p \in Peers |-> FALSE]
    /\ serve_task = [p \in Peers |-> "none"]
    /\ events = [p \in Peers |-> Event]
    /\ futures = [p \in Peers |-> EmptyObj]
    /\ reader = [p \in Peers |-> "none"]
    /\ writer = [p \in Peers |-> "none"]
    /\ serve = [p \in Peers |-> "none"]
    /\ tasks = [p \in Peers |-> <<>>]
    /\ stream = [p \in Peers |-> <<>>]
    /\ rpos = [p \in Peers |-> 0]
    /\ closed = [p \in Peers |-> FALSE]
    /\ awaiter = [p \in Peers |-> Awaiter]
    /\ iter = [p \in Peers |-> Iter]
    /\ submitted = [p \in Peers |-> <<>>]
    /\ last = Quiet

\* variant: positional arguments win over named ones
ParamsOfArgsFirst(in) ==
    IF in.args # <<>> THEN Some(ListParams(in.args))
    ELSE IF in.names # <<>> THEN Some(DictParams(in.names, in.kwvals))
    ELSE Some(NoParams)

\* params of call()/notify(): Some(params), or None when args and kwargs are mixed
ParamsOf(in) ==
    IF in.args # <<>> /\ in.names # <<>> THEN None
    ELSE IF in.args # <<>> THEN Some(ListParams(in.args))
    ELSE IF in.names # <<>> THEN Some(DictParams(in.names, in.kwvals))
    ELSE Some(NoParams)

\* the writer's task after __write_notify(None): its future, if any, gets a result
Woken(p) == IF writer[p] = "wait" /\ "writer" \in write_notify[p].futures
            THEN "ready" ELSE writer[p]

\* RpcPeer.__submit_message for the messages msgs, in order
submit_message(p, msgs) ==
    /\ write_queue' = [write_queue EXCEPT ![p] = @ \o msgs]
    /\ write_notify' = [write_notify EXCEPT ![p] = Event_call(@, {})]
    /\ writer' = [writer EXCEPT ![p] = Woken(p)]
    /\ submitted' = [submitted EXCEPT ![p] = @ \o msgs]

no_message == UNCHANGED <<write_queue, write_notify, writer, submitted>>

\* variant: register() without the check of the terminated flag
registerUnchecked(p, method, handler) ==
    /\ handlers' = [handlers EXCEPT ![p] = (method :> handler) @@ @]
    /\ last' = Quiet
    /\ no_message
    /\ UNCHANGED <<requests, requests_next_id, is_terminated, serve_task, events,
                   futures, reader, serve, tasks, stream, rpos, closed, awaiter, iter>>
    /\ UNCHANGED <<sweepvars, eventvars>>

\* RpcPeer.register
register(p, method, handler) ==
    /\ IF is_terminated[p]
       THEN /\ last' = Outcome("register", p, "RuntimeError")
            /\ UNCHANGED handlers
       ELSE /\ handlers' = [handlers EXCEPT ![p] = (method :> handler) @@ @]
            /\ last' = Quiet
    /\ no_message
    /\ UNCHANGED <<requests, requests_next_id, is_terminated, serve_task, events,
                   futures, reader, serve, tasks, stream, rpos, closed, awaiter, iter>>
    /\ UNCHANGED <<sweepvars, eventvars>>

\* RpcPeer.notify
notify(p, in) ==
    /\ IF is_terminated[p]
       THEN /\ last' = Outcome("notify", p, "RuntimeError")
            /\ no_message
       ELSE IF ParamsOf(in) = None
       THEN /\ last' = Failed("notify", p,
                            invalid_params(Some("cannot mix args and kwargs"), None))
            /\ no_message
       ELSE /\ submit_message(p, <<RpcRequest(in.method, ParamsOf(in)[1], None)>>)
            /\ last' = Quiet
    /\ UNCHANGED <<handlers, requests, requests_next_id, is_terminated, serve_task,
                   events, futures, reader, serve, tasks, stream, rpos, closed,
                   awaiter, iter>>
    /\ UNCHANGED <<sweepvars, eventvars>>

\* variant: call() that does not advance __requests_next_id
callReusesId(p, in) ==
    LET id == requests_next_id[p] IN
    /\ IF is_terminated[p]
       THEN /\ last' = Outcome("call", p, "RuntimeError")
            /\ no_message
            /\ UNCHANGED <<requests, requests_next_id, futures>>
       ELSE IF ParamsOf(in) = None
       THEN /\ requests_next_id' = [requests_next_id EXCEPT ![p] = id + 1]
            /\ last' = Failed("call", p,
                            invalid_params(Some("cannot mix args and kwargs"), None))
            /\ no_message
            /\ UNCHANGED <<requests, futures>>
       ELSE /\ UNCHANGED requests_next_id
            /\ futures' = [futures EXCEPT ![p] =
                    (id :> Future(in.method, ParamsOf(in)[1],
                                  in.method \in DOMAIN handlers[Other(p)])) @@ @]
            /\ requests' = [requests EXCEPT ![p] = @ \cup {id}]
            /\ submit_message(p, <<RpcRequest(in.method, ParamsOf(in)[1], Some(id))>>)
            /\ last' = Quiet
    /\ UNCHANGED <<handlers, is_terminated, serve_task, events, reader, serve,
                   tasks, stream, rpos, closed, awaiter, iter>>
    /\ UNCHANGED <<sweepvars, eventvars>>

\* RpcPeer.call, up to `await future`
call(p, in) ==
    LET id == requests_next_id[p] IN
    /\ IF is_terminated[p]
       THEN /\ last' = Outcome("call", p, "RuntimeError")
            /\ no_message
            /\ UNCHANGED <<requests, requests_next_id, futures>>
       ELSE IF ParamsOf(in) = None
       THEN /\ requests_next_id' = [requests_next_id EXCEPT ![p] = id + 1]
            /\ last' = Failed("call", p,
                            invalid_params(Some("cannot mix args and kwargs"), None))
            /\ no_message
            /\ UNCHANGED <<requests, futures>>
       ELSE /\ requests_next_id' = [requests_next_id EXCEPT ![p] = id + 1]
            /\ futures' = [futures EXCEPT ![p] =
                    (id :> Future(in.method, ParamsOf(in)[1],
                                  in.method \in DOMAIN handlers[Other(p)])) @@ @]
            /\ requests' = [requests EXCEPT ![p] = @ \cup {id}]
            /\ submit_message(p, <<RpcRequest(in.method, ParamsOf(in)[1], Some(id))>>)
            /\ last' = Quiet
    /\ UNCHANGED <<handlers, is_terminated, serve_task, events, reader, serve,
                   tasks, stream, rpos, closed, awaiter, iter>>
    /\ UNCHANGED <<sweepvars, eventvars>>

\* variant: call() with try/finally around its await, which takes the entry
\* out of the map when the task is cancelled
CallCancelledForgets(p, id) ==
    /\ id \in DOMAIN futures[p]
    /\ futures[p][id].st = "pending"
    /\ futures' = [futures EXCEPT ![p][id] = cancel(@)]
    /\ requests' = [requests EXCEPT ![p] = @ \ {id}]
    /\ no_message
    /\ UNCHANGED <<handlers, requests_next_id, is_terminated, serve_task,
                   events, reader, serve, tasks, stream, rpos, closed, awaiter, iter>>
    /\ last' = Quiet
    /\ UNCHANGED <<sweepvars, eventvars>>

\* the task suspended in `return await future` of call() is cancelled: the
\* future it awaits is cancelled with it; call() has no try/finally, so the
\* entry of the id stays in __requests and nothing is sent to the other peer
CallCancelled(p, id) ==
    /\ id \in DOMAIN futures[p]
    /\ futures[p][id].st = "pending"
    /\ futures' = [futures EXCEPT ![p][id] = cancel(@)]
    /\ no_message
    /\ UNCHANGED <<handlers, requests, requests_next_id, is_terminated, serve_task,
                   events, reader, serve, tasks, stream, rpos, closed, awaiter, iter>>
    /\ last' = Quiet
    /\ UNCHANGED <<sweepvars, eventvars>>

\* variant: terminate() forgets to cancel the requests it drops
CancelNone(p) == futures[p]

\* the futures of the pending map after request.cancel() on each of them
CancelRequests(p) ==
    [id \in DOMAIN futures[p] |->
        IF id \in requests[p] THEN cancel(futures[p][id]) ELSE futures[p][id]]

\* variant: terminate() leaves the event stream alone (no self.__events.cancel())
terminateKeepsEvents(p) ==
    IF is_terminated[p]
    THEN UNCHANGED <<is_terminated, requests, futures, events, awaiter, iter,
                     serve_task, reader, writer>>
    ELSE /\ is_terminated' = [is_terminated EXCEPT ![p] = TRUE]
         /\ requests' = [requests EXCEPT ![p] = {}]
         /\ futures' = [futures EXCEPT ![p] = CancelRequests(p)]
         /\ UNCHANGED <<events, awaiter, iter>>
         /\ IF serve_task[p] = "pending"
            THEN /\ serve_task' = [serve_task EXCEPT ![p] = "cancelled"]
                 /\ reader' = [reader EXCEPT ![p] = "cancelled"]
                 /\ writer' = [writer EXCEPT ![p] = "cancelled"]
            ELSE UNCHANGED <<serve_task, reader, writer>>

\* variant: terminate() ends the waiting consumers with an end-of-stream
\* instead of cancelling the futures they await
terminateStopsConsumers(p) ==
    IF is_terminated[p]
    THEN UNCHANGED <<is_terminated, requests, futures, events, awaiter, iter,
                     serve_task, reader, writer>>
    ELSE /\ is_terminated' = [is_terminated EXCEPT ![p] = TRUE]
         /\ requests' = [requests EXCEPT ![p] = {}]
         /\ futures' = [futures EXCEPT ![p] = CancelRequests(p)]
         /\ events' = [events EXCEPT ![p] = Event_cancel(@)]
         /\ awaiter' = [awaiter EXCEPT ![p] =
                IF "awaiter" \in events[p].futures /\ @.st = "pending"
                THEN [@ EXCEPT !.st = "stopped"] ELSE @]
         /\ iter' = [iter EXCEPT ![p] =
                IF "iter" \in events[p].futures /\ @.st = "waiting"
                THEN [@ EXCEPT !.st = "stopped"] ELSE @]
         /\ IF serve_task[p] = "pending"
            THEN /\ serve_task' = [serve_task EXCEPT ![p] = "cancelled"]
                 /\ reader' = [reader EXCEPT ![p] = "cancelled"]
                 /\ writer' = [writer EXCEPT ![p] = "cancelled"]
            ELSE UNCHANGED <<serve_task, reader, writer>>

\* the state RpcPeer.terminate() leaves; serve_task.cancel() cancels the reader
\* and the writer task only while the gather() future is pending; a consumer
\* whose awaited future Event.cancel() cancels ends with CancelledError
terminate(p) ==
    IF is_terminated[p]
    THEN UNCHANGED <<is_terminated, requests, futures, events, awaiter, iter,
                     serve_task, reader, writer>>
    ELSE /\ is_terminated' = [is_terminated EXCEPT ![p] = TRUE]
         /\ requests' = [requests EXCEPT ![p] = {}]
         /\ futures' = [futures EXCEPT ![p] = CancelRequests(p)]
         /\ events' = [events EXCEPT ![p] = Event_cancel(@)]
         /\ awaiter' = [awaiter EXCEPT ![p] =
                IF "awaiter" \in events[p].futures /\ @.st = "pending"
                THEN [@ EXCEPT !.st = "cancelled"] ELSE @]
         /\ iter' = [iter EXCEPT ![p] =
                IF "iter" \in events[p].futures /\ @.st = "waiting"
                THEN [@ EXCEPT !.st = "cancelled"] ELSE @]
         /\ IF serve_task[p] = "pending"
            THEN /\ serve_task' = [serve_task EXCEPT ![p] = "cancelled"]
                 /\ reader' = [reader EXCEPT ![p] = "cancelled"]
                 /\ writer' = [writer EXCEPT ![p] = "cancelled"]
            ELSE UNCHANGED <<serve_task, reader, writer>>

\* RpcPeer.terminate called by the application
Terminate(p) ==
    /\ terminate(p)
    /\ last' = Outcome("terminate", p, "ok")
    /\ UNCHANGED <<handlers, requests_next_id, write_queue, write_notify, serve,
                   tasks, stream, rpos, closed, submitted>>
    /\ UNCHANGED <<sweepvars, eventvars>>

\* RpcPeer.serve, up to `await self.__serve_task`
Serve(p) ==
    /\ IF is_terminated[p] \/ serve_task[p] # "none"
       THEN /\ last' = Outcome("serve", p, "RuntimeError")
            /\ UNCHANGED <<serve_task, reader, writer, serve>>
       ELSE /\ serve_task' = [serve_task EXCEPT ![p] = "pending"]
            /\ reader' = [reader EXCEPT ![p] = "run"]
            /\ writer' = [writer EXCEPT ![p] = "ready"]
            /\ serve' = [serve EXCEPT ![p] = "await"]
            /\ last' = Quiet
    /\ UNCHANGED <<handlers, requests, requests_next_id, write_queue, write_notify,
                   is_terminated, events, futures, tasks, stream, rpos, closed,
                   awaiter, iter, submitted>>
    /\ UNCHANGED <<sweepvars, eventvars>>

\* variant: serve() ends without closing its writer
ServeExitKeepsOpen(p) ==
    /\ serve[p] = "await"
    /\ serve_task[p] \notin {"none", "pending"}
    /\ terminate(p)
    /\ serve' = [serve EXCEPT ![p] = "returned"]
    /\ UNCHANGED <<handlers, requests_next_id, write_queue, write_notify, tasks,
                   stream, rpos, closed, submitted>>
    /\ last' = Quiet
    /\ UNCHANGED <<sweepvars, eventvars>>

\* variant: serve() with `except Exception: pass`, every error of its tasks
\* is swallowed
ServeExitSwallows(p) ==
    /\ serve[p] = "await"
    /\ serve_task[p] \notin {"none", "pending"}
    /\ closed' = [closed EXCEPT ![p] = TRUE]
    /\ terminate(p)
    /\ serve' = [serve EXCEPT ![p] = "returned"]
    /\ UNCHANGED <<handlers, requests_next_id, write_queue, write_notify, tasks,
                   stream, rpos, submitted>>
    /\ last' = Quiet
    /\ UNCHANGED <<sweepvars, eventvars>>

\* serve() resumed by the end of the gather(): except/finally
ServeExit(p) ==
    /\ serve[p] = "await"
    /\ serve_task[p] \notin {"none", "pending"}
    /\ closed' = [closed EXCEPT ![p] = TRUE]
    /\ terminate(p)
    /\ serve' = [serve EXCEPT ![p] =
            IF serve_task[p] \in {"cancelled", "CancelledError", "ConnectionResetError"}
            THEN "returned" ELSE "raised"]
    /\ UNCHANGED <<handlers, requests_next_id, write_queue, write_notify, tasks,
                   stream, rpos, submitted>>
    /\ last' = Quiet
    /\ UNCHANGED <<sweepvars, eventvars>>

\* the gather() future after one of its tasks ended with the exception exc
Gathered(p, exc) == IF serve_task[p] = "pending" THEN exc ELSE serve_task[p]

-----------------------------------------------------------------------------
(* The reader task                                                         *)

\* data.decode(): the text of the line that was read (a line that is not the
\* output of serialize() is kept with its text under the key "junk")
decode(obj) == IF "junk" \in DOMAIN obj THEN obj["junk"] ELSE "{}"

\* variant: a notification reaches the event stream only when no handler takes it
DeliveredUnhandled(p, message) ==
    message.id = None /\ message.method \notin DOMAIN handlers[p]

\* the request goes to the event stream of p: `if message.id is None`
Delivered(p, message) == message.id = None

\* RpcPeer.__handle_message for a request: the methods with a handler get a task
HandleRequest(p, message) ==
    /\ IF Delivered(p, message)
       THEN \* self.__events(message)
            /\ events' = [events EXCEPT ![p] = Event_call(@, {"iter"})]
            /\ awaiter' = [awaiter EXCEPT ![p] =
                   IF "awaiter" \in events[p].futures /\ @.st = "pending"
                   THEN [st |-> "done", value |-> message] ELSE @]
            /\ iter' = [iter EXCEPT ![p] =
                   [@ EXCEPT !.events = IF "iter" \in events[p].handlers
                                        THEN Append(@, message) ELSE @,
                             !.st = IF "iter" \in events[p].futures /\ @ = "waiting"
                                    THEN "ready" ELSE @]]
       ELSE UNCHANGED <<events, awaiter, iter>>
    /\ IF message.method \in DOMAIN handlers[p]
       THEN /\ tasks' = [tasks EXCEPT ![p] = Append(@,
                    [request |-> message, handler |-> handlers[p][message.method],
                     pc |-> "new"])]
            /\ no_message
       ELSE IF message.id # None
       THEN /\ submit_message(p, <<method_not_found(Some(message.method), message.id)>>)
            /\ UNCHANGED tasks
       ELSE /\ no_message
            /\ UNCHANGED tasks
    /\ UNCHANGED <<requests, futures>>

\* variant: the future is looked up with get(), its entry stays in the map
HandleResponseKeepsEntry(p, message) ==
    /\ IF message.id # None /\ message.id[1] \in requests[p]
       THEN LET id == message.id[1] IN
            /\ UNCHANGED requests
            /\ futures' = [futures EXCEPT ![p][id] =
                   IF done(@) THEN @
                   ELSE IF message.type = "error" THEN set_exception(@, message)
                   ELSE set_result(@, message.result)]
       ELSE UNCHANGED <<requests, futures>>
    /\ no_message
    /\ UNCHANGED <<events, awaiter, iter, tasks>>

\* RpcPeer.__handle_message for a response that is not an error without id
HandleResponse(p, message) ==
    /\ IF message.id # None /\ message.id[1] \in requests[p]
       THEN LET id == message.id[1] IN
            /\ requests' = [requests EXCEPT ![p] = @ \ {id}]
            /\ futures' = [futures EXCEPT ![p][id] =
                   IF done(@) THEN @
                   ELSE IF message.type = "error" THEN set_exception(@, message)
                   ELSE set_result(@, message.result)]
       ELSE UNCHANGED <<requests, futures>>
    /\ no_message
    /\ UNCHANGED <<events, awaiter, iter, tasks>>

\* one turn of the loop of RpcPeer.__reader on a line of input
ReadMessage(p) ==
    /\ reader[p] = "run"
    /\ rpos[p] < Len(stream[Other(p)])
    /\ rpos' = [rpos EXCEPT ![p] = @ + 1]
    /\ LET obj == stream[Other(p)][rpos[p] + 1]
           failed == deserialize_raises(obj)
           message == IF failed THEN None ELSE deserialize(obj)
           raises == message # None /\ message[1].type = "error" /\ message[1].id = None
       IN
       /\ IF failed
          THEN /\ no_message
               /\ UNCHANGED <<requests, futures, events, awaiter, iter, tasks>>
          ELSE IF message = None
          THEN /\ submit_message(p, <<invalid_request(Some(decode(obj)), Get(obj, "id"))>>)
               /\ UNCHANGED <<requests, futures, events, awaiter, iter, tasks>>
          ELSE IF message[1].type = "request" THEN HandleRequest(p, message[1])
          ELSE IF raises
          THEN /\ no_message
               /\ UNCHANGED <<requests, futures, events, awaiter, iter, tasks>>
          ELSE HandleResponse(p, message[1])
       /\ reader' = [reader EXCEPT ![p] =
              IF failed \/ raises THEN "raised"
              ELSE IF is_terminated[p] THEN "cancelled" ELSE @]
       /\ serve_task' = [serve_task EXCEPT ![p] =
              IF failed THEN Gathered(p, "AttributeError")
              ELSE IF raises THEN Gathered(p, "RpcError")
              ELSE IF is_terminated[p] THEN Gathered(p, "CancelledError") ELSE @]
    /\ UNCHANGED <<handlers, requests_next_id, is_terminated, serve, stream, closed>>
    /\ last' = Quiet
    /\ UNCHANGED <<sweepvars, eventvars>>

\* reader.readline() returns no data: the other end closed, or the own transport did
ReadEof(p) ==
    /\ reader[p] = "run"
    /\ closed[p] \/ (closed[Other(p)] /\ rpos[p] = Len(stream[Other(p)]))
    /\ reader' = [reader EXCEPT ![p] = "cancelled"]
    /\ serve_task' = [serve_task EXCEPT ![p] = Gathered(p, "CancelledError")]
    /\ no_message
    /\ UNCHANGED <<handlers, requests, requests_next_id, is_terminated, events, futures,
                   serve, tasks, stream, rpos, closed, awaiter, iter>>
    /\ last' = Quiet
    /\ UNCHANGED <<sweepvars, eventvars>>

-----------------------------------------------------------------------------
(* The writer task                                                         *)

\* variant: the writer takes the messages from the wrong end of the queue
SerializedLifo(queue) ==
    [i \in 1..Len(queue) |-> serialize(queue[Len(queue) + 1 - i])]

\* the serialized messages, in the order of the queue
Serialized(queue) == [i \in 1..Len(queue) |-> serialize(queue[i])]

\* variant: the writer awaits the wake-up event without testing the queue
\* again after drain()
WriteThenWait(p) ==
    /\ writer[p] \in {"ready", "drain"}
    /\ IF is_terminated[p]
       THEN /\ writer' = [writer EXCEPT ![p] = "cancelled"]
            /\ serve_task' = [serve_task EXCEPT ![p] = Gathered(p, "CancelledError")]
            /\ UNCHANGED <<write_queue, write_notify, stream>>
       ELSE IF write_queue[p] = <<>> \/ writer[p] = "drain"
       THEN /\ write_notify' = [write_notify EXCEPT ![p] = Event_await(@, "writer")]
            /\ writer' = [writer EXCEPT ![p] = "wait"]
            /\ UNCHANGED <<write_queue, serve_task, stream>>
       ELSE /\ stream' = [stream EXCEPT ![p] = @ \o Serialized(write_queue[p])]
            /\ write_queue' = [write_queue EXCEPT ![p] = <<>>]
            /\ writer' = [writer EXCEPT ![p] = "drain"]
            /\ UNCHANGED <<write_notify, serve_task>>
    /\ UNCHANGED <<handlers, requests, requests_next_id, is_terminated, events, futures,
                   reader, serve, tasks, rpos, closed, awaiter, iter, submitted>>
    /\ last' = Quiet
    /\ UNCHANGED <<sweepvars, eventvars>>

\* one turn of the loop of RpcPeer.__writer, from its top to the next await
Write(p) ==
    /\ writer[p] \in {"ready", "drain"}
    /\ IF is_terminated[p]
       THEN /\ writer' = [writer EXCEPT ![p] = "cancelled"]
            /\ serve_task' = [serve_task EXCEPT ![p] = Gathered(p, "CancelledError")]
            /\ UNCHANGED <<write_queue, write_notify, stream>>
       ELSE IF write_queue[p] = <<>>
       THEN /\ write_notify' = [write_notify EXCEPT ![p] = Event_await(@, "writer")]
            /\ writer' = [writer EXCEPT ![p] = "wait"]
            /\ UNCHANGED <<write_queue, serve_task, stream>>
       ELSE /\ stream' = [stream EXCEPT ![p] = @ \o Serialized(write_queue[p])]
            /\ write_queue' = [write_queue EXCEPT ![p] = <<>>]
            /\ writer' = [writer EXCEPT ![p] = "drain"]
            /\ UNCHANGED <<write_notify, serve_task>>
    /\ UNCHANGED <<handlers, requests, requests_next_id, is_terminated, events, futures,
                   reader, serve, tasks, rpos, closed, awaiter, iter, submitted>>
    /\ last' = Quiet
    /\ UNCHANGED <<sweepvars, eventvars>>

\* writer.drain() raises ConnectionResetError: the other end is closed
WriteReset(p) ==
    /\ writer[p] = "drain"
    /\ closed[Other(p)]
    /\ writer' = [writer EXCEPT ![p] = "failed"]
    /\ serve_task' = [serve_task EXCEPT ![p] = Gathered(p, "ConnectionResetError")]
    /\ UNCHANGED <<handlers, requests, requests_next_id, write_queue, write_notify,
                   is_terminated, events, futures, reader, serve, tasks, stream, rpos,
                   closed, awaiter, iter, submitted>>
    /\ last' = Quiet
    /\ UNCHANGED <<sweepvars, eventvars>>

-----------------------------------------------------------------------------
(* Handler tasks                                                           *)

\* RpcError.current(id=id, data=data) while the exception error is handled
RpcError_current(error, data, id) ==
    IF error.type = "error" THEN error
    ELSE internal_error(Some(data \o " " \o error.text), id)

\* the response __handle_request builds when the handler raised error
Raised(request, error) ==
    IF error.type = "TypeError"
    THEN invalid_params(Some("[" \o request.method \o "] " \o error.text), request.id)
    ELSE RpcError_current(error, "[" \o request.method \o "]", request.id)

Exception(type, text) == [type |-> type, text |-> text]

\* what the handler fail() raises
Raises == {Exception("RuntimeError", "boom")}
              \cup {invalid_params(Some("bad"), id) : id \in RaisedIds}

\* variant: the task submits its response whatever the id of the request
RespondAlways(p, i, response) ==
    /\ tasks' = [tasks EXCEPT ![p] = RemoveAt(@, i)]
    /\ submit_message(p, <<response>>)

\* the task ends: the response is submitted unless the request is a notification
Respond(p, i, response) ==
    /\ tasks' = [tasks EXCEPT ![p] = RemoveAt(@, i)]
    /\ IF tasks[p][i].request.id # None
       THEN submit_message(p, <<response>>)
       ELSE no_message

\* RpcPeer.__handle_request from its start to its end or to `await result`
HandlerStart(p, i) ==
    /\ i \in DOMAIN tasks[p]
    /\ tasks[p][i].pc = "new"
    /\ LET request == tasks[p][i].request
           handler == tasks[p][i].handler
       IN
       IF ~Binds(handler, request.params)
       THEN Respond(p, i, Raised(request, Exception("TypeError", "arguments")))
       ELSE CASE handler = "name" -> Respond(p, i, RpcResult(p, request.id))
              [] handler = "sleep" ->
                    /\ tasks' = [tasks EXCEPT ![p][i].pc = "await"]
                    /\ no_message
              [] handler = "fail" ->
                    \E error \in Raises : Respond(p, i, Raised(request, error))
    /\ UNCHANGED <<handlers, requests, requests_next_id, is_terminated, serve_task,
                   events, futures, reader, serve, stream, rpos, closed, awaiter, iter>>
    /\ last' = Quiet
    /\ UNCHANGED <<sweepvars, eventvars>>

\* the awaitable of an asynchronous handler completes
HandlerResume(p, i) ==
    /\ i \in DOMAIN tasks[p]
    /\ tasks[p][i].pc = "await"
    /\ Respond(p, i, RpcResult("done", tasks[p][i].request.id))
    /\ UNCHANGED <<handlers, requests, requests_next_id, is_terminated, serve_task,
                   events, futures, reader, serve, stream, rpos, closed, awaiter, iter>>
    /\ last' = Quiet
    /\ UNCHANGED <<sweepvars, eventvars>>

-----------------------------------------------------------------------------
(* Consumers of the notification stream                                    *)

peer_unchanged ==
    UNCHANGED <<handlers, requests, requests_next_id, write_queue, write_notify,
                is_terminated, serve_task, futures, reader, writer, serve, tasks,
                stream, rpos, closed, submitted, sweepvars, eventvars>>

\* a task starts `await peer.events`: the events property, then Event.__await__
EventsAwait(p) ==
    /\ awaiter[p].st = "none"
    /\ IF is_terminated[p]
       THEN /\ last' = Outcome("events", p, "StopAsyncIteration")
            /\ UNCHANGED <<events, awaiter>>
       ELSE /\ events' = [events EXCEPT ![p] = Event_await(@, "awaiter")]
            /\ awaiter' = [awaiter EXCEPT ![p].st = "pending"]
            /\ last' = Quiet
    /\ UNCHANGED iter
    /\ peer_unchanged

\* RpcPeer.__aiter__: RpcPeerIter.__init__
IterNew(p) ==
    /\ iter[p].st = "none"
    /\ IF is_terminated[p]
       THEN /\ last' = Outcome("aiter", p, "StopAsyncIteration")
            /\ UNCHANGED <<events, iter>>
       ELSE /\ events' = [events EXCEPT ![p] = Event_on(@, "iter")]
            /\ iter' = [iter EXCEPT ![p] = [@ EXCEPT !.st = "idle", !.since = rpos[p]]]
            /\ last' = Quiet
    /\ UNCHANGED awaiter
    /\ peer_unchanged

\* variant: __anext__ takes the newest buffered event (pop instead of popleft)
IterLoopNewest(p) ==
    IF iter[p].events # <<>>
    THEN /\ iter' = [iter EXCEPT ![p] =
                [@ EXCEPT !.st = "idle",
                          !.events = SubSeq(@, 1, Len(@) - 1),
                          !.yielded = Append(@, iter[p].events[Len(iter[p].events)])]]
         /\ UNCHANGED events
    ELSE IF is_terminated[p]
    THEN /\ iter' = [iter EXCEPT ![p].st = "stopped"]
         /\ UNCHANGED events
    ELSE /\ events' = [events EXCEPT ![p] = Event_await(@, "iter")]
         /\ iter' = [iter EXCEPT ![p].st = "waiting"]

\* RpcPeerIter.__anext__ from `while not self.events` on
IterLoop(p) ==
    IF iter[p].events # <<>>
    THEN /\ iter' = [iter EXCEPT ![p] = [@ EXCEPT !.st = "idle",
                                                  !.events = Tail(@),
                                                  !.yielded = Append(@, iter[p].events[1])]]
         /\ UNCHANGED events
    ELSE IF is_terminated[p]
    THEN /\ iter' = [iter EXCEPT ![p].st = "stopped"]
         /\ UNCHANGED events
    ELSE /\ events' = [events EXCEPT ![p] = Event_await(@, "iter")]
         /\ iter' = [iter EXCEPT ![p].st = "waiting"]

\* the consumer asks for the next event: RpcPeerIter.__anext__
IterNext(p) ==
    /\ iter[p].st = "idle"
    /\ IF is_terminated[p]
       THEN /\ iter' = [iter EXCEPT ![p].st = "stopped"]
            /\ UNCHANGED events
       ELSE IterLoop(p)
    /\ UNCHANGED <<awaiter>>
    /\ last' = Quiet
    /\ peer_unchanged

\* the consumer suspended in __anext__ is resumed by a fired event
IterWake(p) ==
    /\ iter[p].st = "ready"
    /\ IterLoop(p)
    /\ UNCHANGED <<awaiter>>
    /\ last' = Quiet
    /\ peer_unchanged

-----------------------------------------------------------------------------
(* The Sweep client: items and windows                                     *)

\* WindowId = str | int
StrId(text) == [str |-> text]
IntId(n) == [int |-> n]
Windows == {StrId("default"), IntId(0)}

\* bool(uid) is False
Falsy(uid) == uid = IntId(0) \/ uid = StrId("")
\* `uid or self.__window_uid_current` for uid: WindowId | None
Or(uid, current) == IF uid = None \/ Falsy(uid[1]) THEN current ELSE uid[1]

\* the caller's items: objects with to_candidate(), plain strings, JSON objects
Item(kind, name) == [kind |-> kind, name |-> name]
Items == {Item("candidate", "A"), Item("candidate", "B"), Item("string", "s"),
          Item("dict", "d")}
\* isinstance(item, ToCandidate)
ToCandidate(item) == item.kind = "candidate"

\* the JSON form of an item: a string, or an object with or without the
\* extra entry _sweep_item_index
Json(json, target, index) == [json |-> json, target |-> target, index |-> index]
\* item.to_candidate(), extra_update(_sweep_item_index=index), to_json()
to_json(item, index) == Json("object", item.name, Some(index))
\* what items_extend puts into the batch for the item stored at index
Batched(item, index) ==
    IF ToCandidate(item) THEN to_json(item, index)
    ELSE Json(IF item.kind = "string" THEN "string" ELSE "object", item.name, None)

\* what the applications pass to items_extend
ExtendInputs == {<<Item("candidate", "A"), Item("string", "s")>>,
                 <<Item("dict", "d"), Item("candidate", "B")>>}
Uids == {None} \cup {Some(w) : w \in Windows}

\* messages between the client's peer and the sweeper
\* (tag: of a bind; index: of an item_update; ref: of a field or view;
\* suppress: of a render_suppress; size: of a resize)
Request(method, uid, its, id) ==
    [kind |-> "request", method |-> method, uid |-> uid, items |-> its, id |-> id,
     tag |-> "", index |-> 0, ref |-> None, suppress |-> FALSE, size |-> 0]
Result(its, id) ==
    [kind |-> "result", method |-> "", uid |-> None, items |-> its, id |-> id,
     tag |-> "", index |-> 0, ref |-> None, suppress |-> FALSE, size |-> 0]
Notification(method, uid, its) ==
    [kind |-> "notify", method |-> method, uid |-> Some(uid), items |-> its, id |-> 0,
     tag |-> "", index |-> 0, ref |-> None, suppress |-> FALSE, size |-> 0]

\* the items handed to the application: by `op` for the window uid, out of
\* the JSON items `its`
\* (index: the index an item_update was called with; raised: the exception
\* the operation raised, "" when it went on; tag: of a SweepBind)
Given(op, uid, its, values) ==
    [op |-> op, uid |-> uid, items |-> its, values |-> values, index |-> 0, raised |-> "",
     tag |-> ""]
Nothing == Given("", None, <<>>, <<>>)

\* the kinds of refs a Sweep resolves: field_resolver and view_resolver
Resolvers == {"field", "view"}
\* the refs the sweeper misses
Refs == {7, 8}

\* Sweep.__init__ with or without a field_resolver and a view_resolver
SweepNew(field_resolver, view_resolver) ==
    /\ items = [w \in Windows |-> <<>>]
    /\ sweep_slots = [resolved |-> [kind \in Resolvers |-> {}],
                      resolver |-> [kind \in Resolvers |->
                            IF kind = "field" THEN field_resolver ELSE view_resolver],
                      terminated |-> FALSE,
                      scope |-> [pc |-> "none", uid |-> None, id |-> 0],
                      window_uid_count |-> 0,
                      quick |-> [pc |-> "none", haystack_index |-> <<>>, id |-> 0],
                      size |-> None,
                      size_task |-> [pc |-> "none", suspended |-> FALSE, value |-> 0],
                      extend |-> [pc |-> "none", rest |-> <<>>, uid |-> None,
                                  w |-> StrId("default"), id |-> 0]]
    /\ window_uid_current = StrId("default")
    /\ binds = {}
    /\ peer_iter = <<>>
    /\ peer_requests = EmptyObj
    /\ peer_next_id = 0
    /\ to_sweeper = <<>>
    /\ to_client = <<>>
    /\ sweeper_items = [w \in Windows |-> <<>>]
    /\ sweeper_current = StrId("default")
    /\ sweeper_binds = {}
    /\ sweeper_emitted = 0
    /\ sweep_calls = [op \in {"items_extend", "query", "bind", "item_update",
                              "items_clear", "register"} |-> 0]
    /\ sweep_log = [sent |-> <<>>, taken |-> <<>>, closed |-> {}, handled |-> <<>>,
                    resolver |-> <<>>, updated |-> {}, input |-> <<>>, batches |-> <<>>]
    /\ given = Nothing

\* a Sweep constructed with both resolvers
SweepInit == SweepNew(TRUE, TRUE)

\* Sweep.__item_get
item_get(uid, item) ==
    IF item.json = "object"
    THEN LET its == items[Or(uid, window_uid_current)] IN
         IF item.index # None /\ item.index[1] < Len(its)
         THEN its[item.index[1] + 1]
         ELSE item
    ELSE item

\* self.__peer.call(...) with the parameters of request, up to the await of its result
peer_request(request) ==
    /\ to_sweeper' = Append(to_sweeper, [request EXCEPT !.id = peer_next_id])
    /\ peer_requests' = (peer_next_id :> [method |-> request.method, uid |-> request.uid,
                                          st |-> "pending", result |-> <<>>])
                            @@ peer_requests
    /\ peer_next_id' = peer_next_id + 1

\* self.__peer.call(method, uid=uid, items=its)
peer_call(method, uid, its) == peer_request(Request(method, uid, its, 0))

\* the window an operation called with uid is about: the window named, the
\* current one for uid None
Named(uid) == IF uid = None THEN window_uid_current ELSE uid[1]

\* Sweep.items_extend, up to the await of the call (one batch)
items_extend(its, uid) ==
    LET w == Or(uid, window_uid_current)
        items_cache == items[w]
        batch == [i \in 1..Len(its) |-> Batched(its[i], Len(items_cache) + i - 1)]
    IN
    /\ items' = [items EXCEPT ![w] = items_cache \o its]
    /\ peer_call("items_extend", uid, batch)
    /\ sweep_calls' = [sweep_calls EXCEPT !["items_extend"] = @ + 1]
    /\ sweep_log' = [sweep_log EXCEPT !.closed = @ \ {Named(uid)}]
    /\ given' = Nothing
    /\ UNCHANGED <<window_uid_current, peer_iter, to_client, sweeper_items,
                   sweeper_current, sweeper_emitted>>
    /\ UNCHANGED <<sweep_slots, binds, sweeper_binds>>
    /\ UNCHANGED <<rpcvars, eventvars>>

\* Sweep.item_update, up to the await of the call
item_update(index, item, uid) ==
    LET w == Or(uid, window_uid_current)
        its == items[w]
    IN
    /\ sweep_calls' = [sweep_calls EXCEPT !["item_update"] = @ + 1]
    /\ IF index < 0
       THEN /\ given' = [Given("item_update", uid, <<>>, <<item>>) EXCEPT
                            !.index = index, !.raised = "AssertionError"]
            /\ UNCHANGED <<items, peer_requests, peer_next_id, to_sweeper, sweep_log>>
       ELSE IF index >= Len(its)
       THEN /\ given' = [Given("item_update", uid, <<>>, <<item>>) EXCEPT
                            !.index = index, !.raised = "IndexError"]
            /\ UNCHANGED <<items, peer_requests, peer_next_id, to_sweeper, sweep_log>>
       ELSE /\ items' = [items EXCEPT ![w][index + 1] = item]
            /\ sweep_log' = [sweep_log EXCEPT !.updated = @ \cup {<<w, index>>}]
            /\ peer_request([Request("item_update", uid, <<Batched(item, index)>>, 0)
                                EXCEPT !.index = index])
            /\ given' = [Given("item_update", uid, <<>>, <<item>>) EXCEPT !.index = index]
    /\ UNCHANGED <<window_uid_current, peer_iter, to_client, sweeper_items,
                   sweeper_current, sweeper_emitted>>
    /\ UNCHANGED <<sweep_slots, binds, sweeper_binds>>
    /\ UNCHANGED <<rpcvars, eventvars>>

\* variant: the item at which the batch is flushed is left out of it
extend_batch_drops(its, n) == [i \in 1..Len(its) - 1 |-> Batched(its[i], n + i - 1)]

\* the batch items_extend has made of the items iterated since its last
\* flush, the first of them appended to a cache of n items
extend_batch(its, n) == [i \in 1..Len(its) |-> Batched(its[i], n + i - 1)]

\* Sweep.items_extend over the rest of its items up to its next await: the
\* time limit is reached at the n-th of them, or they end there, and the
\* batch is sent (items_cache is the store of w; log: what is on record)
extend_run(rest, uid, w, n, log) ==
    LET taken == SubSeq(rest, 1, n)
        batch == extend_batch(taken, Len(items[w]))
    IN
    /\ items' = [items EXCEPT ![w] = @ \o taken]
    /\ peer_call("items_extend", uid, batch)
    /\ sweep_slots' = [sweep_slots EXCEPT !.extend =
            [pc |-> "await", rest |-> SubSeq(rest, n + 1, Len(rest)), uid |-> uid,
             w |-> w, id |-> peer_next_id]]
    /\ sweep_log' = [log EXCEPT !.batches = Append(@, batch)]
    /\ given' = Nothing
    /\ UNCHANGED <<window_uid_current, peer_iter, to_client, sweeper_items,
                   sweeper_current, sweeper_emitted>>
    /\ UNCHANGED <<binds, sweeper_binds>>
    /\ UNCHANGED <<rpcvars, eventvars>>

\* Sweep.items_extend called by a task, up to the await of its first batch
\* (the window of its cache is not closed before the task ends)
items_extend_task(its, uid, n) ==
    /\ sweep_slots.extend.pc = "none"
    /\ n \in 1..Len(its)
    /\ extend_run(its, uid, Or(uid, window_uid_current), n,
                  [sweep_log EXCEPT !.input = its, !.closed = @ \ {Named(uid)}])
    /\ sweep_calls' = [sweep_calls EXCEPT !["items_extend"] = @ + 1]

\* Sweep.items_extend resumed with the result of the call of a batch: it
\* iterates on, or returns when no item is left (the batch is empty)
items_extend_next(n) ==
    LET task == sweep_slots.extend IN
    /\ task.pc = "await"
    /\ task.id \notin DOMAIN peer_requests
    /\ IF task.rest = <<>>
       THEN /\ n = 1
            /\ sweep_slots' = [sweep_slots EXCEPT !.extend.pc = "done"]
            /\ given' = Nothing
            /\ UNCHANGED <<items, window_uid_current, peer_iter, to_client, sweeper_items,
                           sweeper_current, sweeper_emitted, peer_requests, peer_next_id,
                           to_sweeper>>
            /\ UNCHANGED <<binds, sweeper_binds, sweep_log>>
            /\ UNCHANGED <<rpcvars, eventvars>>
       ELSE /\ n \in 1..Len(task.rest)
            /\ extend_run(task.rest, task.uid, task.w, n, sweep_log)
    /\ UNCHANGED sweep_calls

\* variant: items_clear that empties the store of the window as well
\* (self.__items[...].clear() before the call)
items_clear_truncates(uid) ==
    /\ items' = [items EXCEPT ![Or(uid, window_uid_current)] = <<>>]
    /\ peer_call("items_clear", uid, <<>>)
    /\ sweep_calls' = [sweep_calls EXCEPT !["items_clear"] = @ + 1]
    /\ given' = Given("items_clear", uid, <<>>, <<>>)
    /\ UNCHANGED <<window_uid_current, peer_iter, to_client, sweeper_items,
                   sweeper_current, sweeper_emitted>>
    /\ UNCHANGED <<sweep_slots, binds, sweeper_binds, sweep_log>>
    /\ UNCHANGED <<rpcvars, eventvars>>

\* Sweep.items_clear, up to the await of the call
items_clear(uid) ==
    /\ peer_call("items_clear", uid, <<>>)
    /\ sweep_calls' = [sweep_calls EXCEPT !["items_clear"] = @ + 1]
    /\ given' = Given("items_clear", uid, <<>>, <<>>)
    /\ UNCHANGED <<items, window_uid_current, peer_iter, to_client, sweeper_items,
                   sweeper_current, sweeper_emitted>>
    /\ UNCHANGED <<sweep_slots, binds, sweeper_binds, sweep_log>>
    /\ UNCHANGED <<rpcvars, eventvars>>

\* Sweep.field_register / view_register called by the application, up to
\* the await of the call (st: the call is awaited by a task of the
\* application)
field_register(kind, ref) ==
    /\ to_sweeper' = Append(to_sweeper,
            [Request(kind \o "_register", None, <<>>, peer_next_id) EXCEPT !.ref = Some(ref)])
    /\ peer_requests' = (peer_next_id :> [method |-> kind \o "_register", uid |-> None,
                                          st |-> "application", result |-> <<>>])
                            @@ peer_requests
    /\ peer_next_id' = peer_next_id + 1
    /\ sweep_calls' = [sweep_calls EXCEPT !["register"] = @ + 1]
    /\ given' = Nothing
    /\ UNCHANGED <<items, window_uid_current, peer_iter, to_client, sweeper_items,
                   sweeper_current, sweeper_emitted>>
    /\ UNCHANGED <<sweep_slots, binds, sweeper_binds, sweep_log>>
    /\ UNCHANGED <<rpcvars, eventvars>>

\* Sweep.field_resolver_set
field_resolver_set(field_resolver) ==
    /\ sweep_slots' = [sweep_slots EXCEPT !.resolver["field"] = field_resolver]
    /\ given' = Nothing
    /\ UNCHANGED <<items, window_uid_current, peer_iter, to_client, sweeper_items,
                   sweeper_current, sweeper_emitted, peer_requests, peer_next_id,
                   to_sweeper, sweep_calls>>
    /\ UNCHANGED <<binds, sweeper_binds, sweep_log>>
    /\ UNCHANGED <<rpcvars, eventvars>>

\* Sweep.bind, up to the await of the call
bind(tag, handler, uid) ==
    /\ binds' = IF tag # "" /\ handler THEN binds \cup {tag} ELSE binds \ {tag}
    /\ peer_request([Request("bind", uid, <<>>, 0) EXCEPT !.tag = tag])
    /\ sweep_calls' = [sweep_calls EXCEPT !["bind"] = @ + 1]
    /\ given' = Nothing
    /\ UNCHANGED <<items, window_uid_current, peer_iter, to_client, sweeper_items,
                   sweeper_current, sweeper_emitted>>
    /\ UNCHANGED <<sweep_slots, sweeper_binds, sweep_log>>
    /\ UNCHANGED <<rpcvars, eventvars>>

\* Sweep.items_current / Sweep.items_marked, up to the await of the call
items_query(method, uid) ==
    /\ peer_call(method, uid, <<>>)
    /\ sweep_calls' = [sweep_calls EXCEPT !["query"] = @ + 1]
    /\ given' = Nothing
    /\ UNCHANGED <<items, window_uid_current, peer_iter, to_client, sweeper_items,
                   sweeper_current, sweeper_emitted>>
    /\ UNCHANGED <<sweep_slots, binds, sweeper_binds, sweep_log>>
    /\ UNCHANGED <<rpcvars, eventvars>>

\* Sweep.field_register / view_register resumed with the result of the call:
\* self.__field_resolved.add(ref_val)
register_return(method, message) ==
    IF method \in {"field_register", "view_register"}
    THEN [sweep_slots EXCEPT
            !.resolved[IF method = "field_register" THEN "field" ELSE "view"] =
                @ \cup {message.ref[1]}]
    ELSE sweep_slots

\* the task in a render_suppress scope resumed with the result of the call it
\* awaits: the body starts after the acquisition, the scope ends after the release
scope_return(id, slots) ==
    IF slots.scope.pc \in {"acquiring", "releasing"} /\ slots.scope.id = id
    THEN [slots EXCEPT !.scope.pc = IF @ = "acquiring" THEN "body" ELSE "done"]
    ELSE slots

\* a task enters `async with sweep.render_suppress(uid)`:
\* await self.__peer.render_suppress(uid=uid, suppress=True)
render_suppress(uid) ==
    /\ sweep_slots.scope.pc = "none"
    /\ ~sweep_slots.terminated
    /\ peer_request([Request("render_suppress", uid, <<>>, 0) EXCEPT !.suppress = TRUE])
    /\ sweep_slots' = [sweep_slots EXCEPT
            !.scope = [pc |-> "acquiring", uid |-> uid, id |-> peer_next_id]]
    /\ given' = Nothing
    /\ UNCHANGED <<items, window_uid_current, peer_iter, to_client, sweeper_items,
                   sweeper_current, sweeper_emitted, sweep_calls>>
    /\ UNCHANGED <<binds, sweeper_binds, sweep_log>>
    /\ UNCHANGED <<rpcvars, eventvars>>

\* the body of the scope is not suspended in a call of its own
BodyRuns == \A id \in DOMAIN peer_requests : peer_requests[id].method # "items_extend"

\* variant: the release only after a body that completed (no try/finally)
render_suppress_exit_unprotected(how) ==
    LET scope == sweep_slots.scope IN
    /\ \/ scope.pc = "body" /\ (how = "cancel" \/ BodyRuns)
       \/ scope.pc \in {"acquiring", "releasing"} /\ how = "cancel"
    /\ IF scope.pc # "releasing" /\ how = "return" /\ ~sweep_slots.terminated
       THEN /\ peer_request([Request("render_suppress", scope.uid, <<>>, 0)
                                EXCEPT !.suppress = FALSE])
            /\ sweep_slots' = [sweep_slots EXCEPT
                    !.scope.pc = "releasing", !.scope.id = peer_next_id]
       ELSE /\ sweep_slots' = [sweep_slots EXCEPT !.scope.pc = "done"]
            /\ UNCHANGED <<peer_requests, peer_next_id, to_sweeper>>
    /\ given' = [Given("render_suppress", scope.uid, <<>>, <<>>) EXCEPT !.raised = how]
    /\ UNCHANGED <<items, window_uid_current, peer_iter, to_client, sweeper_items,
                   sweeper_current, sweeper_emitted, sweep_calls>>
    /\ UNCHANGED <<binds, sweeper_binds, sweep_log>>
    /\ UNCHANGED <<rpcvars, eventvars>>

\* the scope is left: the body returns or raises, or the task is cancelled
\* (in the body, or while it awaits the acquisition or the release); the
\* finally clause sends the release unless the peer is terminated
render_suppress_exit(how) ==
    LET scope == sweep_slots.scope IN
    /\ \/ scope.pc = "body" /\ (how = "cancel" \/ BodyRuns)
       \/ scope.pc \in {"acquiring", "releasing"} /\ how = "cancel"
    /\ IF scope.pc # "releasing" /\ ~sweep_slots.terminated
       THEN /\ peer_request([Request("render_suppress", scope.uid, <<>>, 0)
                                EXCEPT !.suppress = FALSE])
            /\ sweep_slots' = [sweep_slots EXCEPT
                    !.scope.pc = "releasing", !.scope.id = peer_next_id]
       ELSE /\ sweep_slots' = [sweep_slots EXCEPT !.scope.pc = "done"]
            /\ UNCHANGED <<peer_requests, peer_next_id, to_sweeper>>
    /\ given' = [Given("render_suppress", scope.uid, <<>>, <<>>) EXCEPT !.raised = how]
    /\ UNCHANGED <<items, window_uid_current, peer_iter, to_client, sweeper_items,
                   sweeper_current, sweeper_emitted, sweep_calls>>
    /\ UNCHANGED <<binds, sweeper_binds, sweep_log>>
    /\ UNCHANGED <<rpcvars, eventvars>>

\* Sweep.terminate: self.__peer.terminate() cancels the pending calls; a task
\* awaiting one of them in the scope gets CancelledError and leaves the scope
\* with no release
sweep_terminate ==
    /\ ~sweep_slots.terminated
    /\ sweep_slots' = [sweep_slots EXCEPT
            !.terminated = TRUE,
            !.scope.pc = IF @ \in {"acquiring", "releasing"} THEN "done" ELSE @]
    /\ peer_requests' = EmptyObj
    /\ given' = Nothing
    /\ UNCHANGED <<items, window_uid_current, peer_iter, peer_next_id, to_sweeper, to_client,
                   sweeper_items, sweeper_current, sweeper_emitted, sweep_calls>>
    /\ UNCHANGED <<binds, sweeper_binds, sweep_log>>
    /\ UNCHANGED <<rpcvars, eventvars>>

\* Sweep.size, up to its return or its first `await self.__peer.events`
size ==
    /\ sweep_slots.size_task.pc = "none"
    /\ sweep_slots' = [sweep_slots EXCEPT !.size_task =
            IF sweep_slots.size # None
            THEN [pc |-> "done", suspended |-> FALSE, value |-> sweep_slots.size[1]]
            ELSE [pc |-> "waiting", suspended |-> TRUE, value |-> 0]]
    /\ given' = Nothing
    /\ UNCHANGED <<items, window_uid_current, peer_iter, peer_requests, peer_next_id,
                   to_sweeper, to_client, sweeper_items, sweeper_current, sweeper_emitted,
                   sweep_calls>>
    /\ UNCHANGED <<binds, sweeper_binds, sweep_log>>
    /\ UNCHANGED <<rpcvars, eventvars>>

\* the Event of the peer fires for a notification: the future of the task in
\* size() gets its result
size_woken ==
    IF sweep_slots.size_task.pc = "waiting"
    THEN [sweep_slots EXCEPT !.size_task.pc = "ready"]
    ELSE sweep_slots

\* the task in size() resumes after `await self.__peer.events`: the loop
\* tests __size again
size_resume ==
    /\ sweep_slots.size_task.pc = "ready"
    /\ sweep_slots' = [sweep_slots EXCEPT !.size_task =
            IF sweep_slots.size # None
            THEN [pc |-> "done", suspended |-> TRUE, value |-> sweep_slots.size[1]]
            ELSE [@ EXCEPT !.pc = "waiting"]]
    /\ given' = Nothing
    /\ UNCHANGED <<items, window_uid_current, peer_iter, peer_requests, peer_next_id,
                   to_sweeper, to_client, sweeper_items, sweeper_current, sweeper_emitted,
                   sweep_calls>>
    /\ UNCHANGED <<binds, sweeper_binds, sweep_log>>
    /\ UNCHANGED <<rpcvars, eventvars>>

\* the reader of the client's peer takes the next message: a result completes
\* the future of its call (items_extend, bind and item_update end with it), a notification is
\* appended to the deque of __peer_iter
ClientRead ==
    /\ to_client # <<>>
    /\ LET message == Head(to_client) IN
       IF message.kind = "result" /\ message.id \notin DOMAIN peer_requests
       THEN UNCHANGED <<peer_requests, sweep_slots, peer_iter>>
       ELSE IF message.kind = "result"
       THEN /\ peer_requests' =
                    IF peer_requests[message.id].method
                            \notin {"items_current", "items_marked", "quick_select"}
                    THEN [id \in DOMAIN peer_requests \ {message.id} |-> peer_requests[id]]
                    ELSE [peer_requests EXCEPT ![message.id] =
                            [@ EXCEPT !.st = "result", !.result = message.items]]
            /\ sweep_slots' = scope_return(message.id,
                                register_return(peer_requests[message.id].method, message))
            /\ UNCHANGED peer_iter
       ELSE /\ peer_iter' = Append(peer_iter, message)
            /\ sweep_slots' = size_woken
            /\ UNCHANGED peer_requests
    /\ to_client' = Tail(to_client)
    /\ given' = Nothing
    /\ UNCHANGED <<items, window_uid_current, peer_next_id, to_sweeper, sweeper_items,
                   sweeper_current, sweeper_emitted, sweep_calls>>
    /\ UNCHANGED <<binds, sweeper_binds, sweep_log>>
    /\ UNCHANGED <<rpcvars, eventvars>>

\* items_current / items_marked resumed with the result of the call
items_return(id) ==
    /\ id \in DOMAIN peer_requests
    /\ peer_requests[id].st = "result"
    /\ peer_requests[id].method \in {"items_current", "items_marked"}
    /\ LET request == peer_requests[id] IN
       given' = Given(request.method, request.uid, request.result,
                      [i \in 1..Len(request.result) |->
                            item_get(request.uid, request.result[i])])
    /\ peer_requests' = [i \in DOMAIN peer_requests \ {id} |-> peer_requests[i]]
    /\ UNCHANGED <<items, window_uid_current, peer_iter, peer_next_id, to_sweeper,
                   to_client, sweeper_items, sweeper_current, sweeper_emitted,
                   sweep_calls>>
    /\ UNCHANGED <<sweep_slots, binds, sweeper_binds, sweep_log>>
    /\ UNCHANGED <<rpcvars, eventvars>>

\* quick_select: the haystack sent for the caller's items; a candidate is
\* stamped with its number among the candidates (len(haystack_index))
Haystack(its) ==
    [i \in 1..Len(its) |->
        Batched(its[i], Cardinality({j \in 1..(i - 1) : ToCandidate(its[j])}))]

\* quick_select: the result list built from the items the sweeper selected
QuickResult(selected, haystack_index) ==
    LET taken == SelectSeq(selected, LAMBDA item :
                    \/ item.json # "object"
                    \/ item.index # None /\ item.index[1] < Len(haystack_index))
    IN [i \in DOMAIN taken |->
            IF taken[i].json = "object" THEN haystack_index[taken[i].index[1] + 1]
            ELSE taken[i]]

\* Sweep.quick_select, up to the await of the call
quick_select(its, window_uid) ==
    LET count == sweep_slots.window_uid_count
        uid == IF window_uid = None THEN Some(IntId(count + 1)) ELSE window_uid
    IN
    /\ sweep_slots.quick.pc = "none"
    /\ sweep_slots' = [sweep_slots EXCEPT
            !.window_uid_count = IF window_uid = None THEN count + 1 ELSE count,
            !.quick = [pc |-> "await", haystack_index |-> SelectSeq(its, ToCandidate),
                       id |-> peer_next_id]]
    /\ peer_call("quick_select", uid, Haystack(its))
    /\ given' = Nothing
    /\ UNCHANGED <<items, window_uid_current, peer_iter, to_client, sweeper_items,
                   sweeper_current, sweeper_emitted, sweep_calls>>
    /\ UNCHANGED <<binds, sweeper_binds, sweep_log>>
    /\ UNCHANGED <<rpcvars, eventvars>>

\* Sweep.quick_select resumed with the result of the call
quick_select_return ==
    LET quick == sweep_slots.quick IN
    /\ quick.pc = "await"
    /\ quick.id \in DOMAIN peer_requests
    /\ peer_requests[quick.id].st = "result"
    /\ given' = Given("quick_select", peer_requests[quick.id].uid,
                      peer_requests[quick.id].result,
                      QuickResult(peer_requests[quick.id].result, quick.haystack_index))
    /\ sweep_slots' = [sweep_slots EXCEPT !.quick.pc = "done"]
    /\ peer_requests' = [i \in DOMAIN peer_requests \ {quick.id} |-> peer_requests[i]]
    /\ UNCHANGED <<items, window_uid_current, peer_iter, peer_next_id, to_sweeper,
                   to_client, sweeper_items, sweeper_current, sweeper_emitted,
                   sweep_calls>>
    /\ UNCHANGED <<binds, sweeper_binds, sweep_log>>
    /\ UNCHANGED <<rpcvars, eventvars>>

\* what a bind handler returns (`await handler(self, tag)`): an item or None
HandlerReturns == {None, Some(Item("candidate", "A"))}

\* event_iter is suspended in `await self.field_register(field, ref)` (or
\* view_register): the call it made is not answered yet
Registering ==
    \E id \in DOMAIN peer_requests :
        /\ peer_requests[id].method \in {"field_register", "view_register"}
        /\ peer_requests[id].st = "pending"

\* variant: the test without `ref in self.__field_resolved`
ConsultedAgain(kind, ref) == ~(ref = None \/ ~sweep_slots.resolver[kind])

\* the test before the resolver is called: the ref is given, not resolved
\* yet, and there is a resolver
Consulted(kind, ref) ==
    ~(ref = None \/ ref[1] \in sweep_slots.resolved[kind] \/ ~sweep_slots.resolver[kind])

\* SweepBind(uid, tag, key) for a bind notification
SweepBind(event) == [Given("bind", event.uid, <<>>, <<>>) EXCEPT !.tag = event.tag]

\* variant: a bind whose handler returned None surfaces as a SweepBind
HandledOrBind(event, item) ==
    IF item = None THEN SweepBind(event)
    ELSE Given("select_by_handler", event.uid, <<>>, item)

\* what event_iter yields after `item = await handler(self, tag)`: a
\* SweepSelect with the item, nothing for None
Handled(event, item) ==
    IF item = None THEN Nothing
    ELSE Given("select_by_handler", event.uid, <<>>, item)

\* one turn of event_iter() in Sweep.__aiter__ on the next notification
event_iter ==
    /\ peer_iter # <<>>
    /\ ~Registering
    /\ \E item \in HandlerReturns, found \in BOOLEAN :
       LET event == Head(peer_iter)
           uid == event.uid[1]
           \* handler = self.__binds.get(tag) is not None
           calls == event.method = "bind" /\ event.tag \in binds
           kind == IF event.method = "field_missing" THEN "field" ELSE "view"
           consults == /\ event.method \in {"field_missing", "view_missing"}
                       /\ Consulted(kind, event.ref)
       IN
       /\ (~calls => item = None)
       /\ (~consults => ~found)
       /\ CASE event.method = "select" ->
                /\ given' = Given("select", event.uid, event.items,
                                  [i \in 1..Len(event.items) |->
                                        item_get(event.uid, event.items[i])])
                /\ UNCHANGED <<items, window_uid_current>>
         [] event.method = "window_switched" ->
                /\ window_uid_current' = uid
                /\ given' = Nothing
                /\ UNCHANGED items
         [] event.method = "window_closed" ->
                /\ items' = [items EXCEPT ![uid] = <<>>]
                /\ given' = Nothing
                /\ UNCHANGED window_uid_current
         [] event.method = "bind" ->
                /\ given' = IF calls THEN Handled(event, item) ELSE SweepBind(event)
                /\ UNCHANGED <<items, window_uid_current>>
         [] event.method \in {"field_missing", "view_missing"} ->
                /\ given' = Nothing
                /\ UNCHANGED <<items, window_uid_current>>
         [] event.method = "resize" ->
                /\ given' = [Given("resize", None, <<>>, <<>>) EXCEPT !.index = event.size]
                /\ UNCHANGED <<items, window_uid_current>>
       /\ sweep_slots' = IF event.method = "resize"
                         THEN [sweep_slots EXCEPT !.size = Some(event.size)]
                         ELSE sweep_slots
       /\ IF found
          THEN peer_request([Request(kind \o "_register", None, <<>>, 0)
                                EXCEPT !.ref = event.ref])
          ELSE UNCHANGED <<peer_requests, peer_next_id, to_sweeper>>
       /\ sweep_log' = [sweep_log EXCEPT
            !.taken = Append(@, event),
            !.resolver = IF consults
                         THEN Append(@, [kind |-> kind, ref |-> event.ref[1], found |-> found])
                         ELSE @,
            !.handled = IF calls THEN Append(@, [tag |-> event.tag, item |-> item]) ELSE @,
            !.closed = IF event.method = "window_closed" THEN @ \cup {uid} ELSE @,
            !.updated = IF event.method = "window_closed"
                        THEN {pair \in @ : pair[1] # uid} ELSE @]
    /\ peer_iter' = Tail(peer_iter)
    /\ UNCHANGED <<to_client, sweeper_items, sweeper_current, sweeper_emitted, sweep_calls>>
    /\ UNCHANGED <<binds, sweeper_binds>>
    /\ UNCHANGED <<rpcvars, eventvars>>

-----------------------------------------------------------------------------
(* The sweeper process, as the specification describes it: a list of items *)
(* per window, requests applied in the order received to the window named  *)
(* by uid (the window shown when uid is null)                              *)

SweeperWindow(uid) == IF uid = None THEN sweeper_current ELSE uid[1]

\* the answers to items_current: the item under the cursor, null for an empty list
Current(w) ==
    IF sweeper_items[w] = <<>> THEN {<<>>}
    ELSE {<<sweeper_items[w][i]>> : i \in DOMAIN sweeper_items[w]}

\* the answers to items_marked: no item, or all of them
Marked(w) == {<<>>, sweeper_items[w]}

\* what the user may select in a quick_select view: any of the items, in any order
Selections(haystack) ==
    {<<>>} \cup {<<haystack[i]>> : i \in DOMAIN haystack}
           \cup {<<haystack[i], haystack[j]>> : i, j \in DOMAIN haystack}
           \cup {haystack}

\* the sweeper handles the next request and answers it
SweeperHandle ==
    /\ to_sweeper # <<>>
    /\ LET request == Head(to_sweeper)
           w == SweeperWindow(request.uid)
       IN
       CASE request.method = "items_extend" ->
                /\ sweeper_items' = [sweeper_items EXCEPT ![w] = @ \o request.items]
                /\ to_client' = Append(to_client, Result(<<>>, request.id))
                /\ UNCHANGED sweeper_binds
         [] request.method = "items_current" ->
                /\ \E result \in Current(w) :
                        to_client' = Append(to_client, Result(result, request.id))
                /\ UNCHANGED <<sweeper_items, sweeper_binds>>
         [] request.method = "items_marked" ->
                /\ \E result \in Marked(w) :
                        to_client' = Append(to_client, Result(result, request.id))
                /\ UNCHANGED <<sweeper_items, sweeper_binds>>
         [] request.method = "items_clear" ->
                /\ sweeper_items' = [sweeper_items EXCEPT ![w] = <<>>]
                /\ to_client' = Append(to_client, Result(<<>>, request.id))
                /\ UNCHANGED sweeper_binds
         [] request.method = "item_update" ->
                /\ sweeper_items' =
                        IF request.index + 1 \in DOMAIN sweeper_items[w]
                        THEN [sweeper_items EXCEPT ![w][request.index + 1] = request.items[1]]
                        ELSE sweeper_items
                /\ to_client' = Append(to_client, Result(<<>>, request.id))
                /\ UNCHANGED sweeper_binds
         [] request.method \in {"field_register", "view_register"} ->
                /\ to_client' = Append(to_client,
                        [Result(<<>>, request.id) EXCEPT !.ref = request.ref])
                /\ UNCHANGED <<sweeper_items, sweeper_binds>>
         [] request.method = "quick_select" ->
                /\ \E selected \in Selections(request.items) :
                        to_client' = Append(to_client, Result(selected, request.id))
                /\ UNCHANGED <<sweeper_items, sweeper_binds>>
         [] request.method = "render_suppress" ->
                /\ to_client' = Append(to_client, Result(<<>>, request.id))
                /\ UNCHANGED <<sweeper_items, sweeper_binds>>
         [] request.method = "bind" ->
                /\ sweeper_binds' = IF request.tag # "" THEN sweeper_binds \cup {request.tag}
                                     ELSE sweeper_binds
                /\ to_client' = Append(to_client, Result(<<>>, request.id))
                /\ UNCHANGED sweeper_items
    /\ to_sweeper' = Tail(to_sweeper)
    /\ given' = Nothing
    /\ UNCHANGED <<items, window_uid_current, peer_iter, peer_requests, peer_next_id,
                   sweeper_current, sweeper_emitted, sweep_calls>>
    /\ UNCHANGED <<sweep_slots, binds, sweep_log>>
    /\ UNCHANGED <<rpcvars, eventvars>>

\* the sweeper sends a notification
SweeperNotify(message) ==
    /\ sweeper_emitted < MaxEmit
    /\ sweeper_emitted' = sweeper_emitted + 1
    /\ to_client' = Append(to_client, message)
    /\ sweep_log' = [sweep_log EXCEPT !.sent = Append(@, message)]
    /\ given' = Nothing
    /\ UNCHANGED <<items, window_uid_current, peer_iter, peer_requests, peer_next_id,
                   to_sweeper, sweep_calls>>
    /\ UNCHANGED <<sweep_slots, binds, sweeper_binds>>
    /\ UNCHANGED <<rpcvars, eventvars>>

\* the user selects an item of the window shown
SweeperSelect ==
    /\ \E i \in DOMAIN sweeper_items[sweeper_current] :
            SweeperNotify(Notification("select", sweeper_current,
                                       <<sweeper_items[sweeper_current][i]>>))
    /\ UNCHANGED <<sweeper_items, sweeper_current>>

\* the user presses a bound key
SweeperBind(tag) ==
    /\ tag \in sweeper_binds
    /\ SweeperNotify([Notification("bind", sweeper_current, <<>>) EXCEPT !.tag = tag])
    /\ UNCHANGED <<sweeper_items, sweeper_current>>

\* the sweeper misses the field or view ref
SweeperMissing(kind, ref) ==
    /\ SweeperNotify([Notification(kind \o "_missing", sweeper_current, <<>>)
                        EXCEPT !.ref = ref])
    /\ UNCHANGED <<sweeper_items, sweeper_current>>

\* the terminal of the sweeper gets a size
SweeperResize(n) ==
    /\ SweeperNotify([Notification("resize", sweeper_current, <<>>) EXCEPT !.size = n])
    /\ UNCHANGED <<sweeper_items, sweeper_current>>

\* the sweeper shows another window
SweeperSwitch(w) ==
    /\ w # sweeper_current
    /\ sweeper_current' = w
    /\ SweeperNotify(Notification("window_switched", w, <<>>))
    /\ UNCHANGED sweeper_items

\* the sweeper closes a window that is not shown
SweeperClose(w) ==
    /\ w # sweeper_current
    /\ sweeper_items' = [sweeper_items EXCEPT ![w] = <<>>]
    /\ SweeperNotify(Notification("window_closed", w, <<>>))
    /\ UNCHANGED sweeper_current

-----------------------------------------------------------------------------
(* Two peers over one connected stream                                     *)

Notified(p) == Len(SelectSeq(submitted[p], LAMBDA m : m.type = "request" /\ m.id = None))

\* the application registers its handlers one after the other
NextHandler(p) == Registrations(p)[Cardinality(DOMAIN handlers[p]) + 1]
Registered(p) == Cardinality(DOMAIN handlers[p]) = Len(Registrations(p))
Mixed(in) == ParamsOf(in) = None

\* Tests.test_rpc sets the two peers up in the order of its program: a's
\* handlers, b's handlers, a.serve, b.serve; then the peers are used
SetupDone == \A p \in Peers : serve_task[p] # "none"

SetupRegister ==
    \E p \in Peers :
        /\ ~Registered(p)
        /\ (p = "b" => Registered("a"))
        /\ register(p, NextHandler(p), NextHandler(p))

SetupServe ==
    \E p \in Peers :
        /\ \A q \in Peers : Registered(q)
        /\ serve_task[p] = "none"
        /\ (p = "b" => serve_task["a"] # "none")
        /\ Serve(p)

\* the applications use the live peers
UseNotify ==
    \E p \in Notifiers, in \in NotifyInputs :
        /\ SetupDone /\ ~is_terminated[p] /\ ~Mixed(in)
        /\ Notified(p) < MaxNotify
        /\ notify(p, in)

UseCall ==
    \E p \in Callers, in \in CallInputs :
        /\ SetupDone /\ ~is_terminated[p] /\ ~Mixed(in)
        /\ requests_next_id[p] < MaxCalls
        /\ call(p, in)

UseTerminate == \E p \in Peers : SetupDone /\ Terminate(p)

\* the tasks of the event loop
Tasks ==
    \/ \E p \in Peers : ServeExit(p)
    \/ \E p \in Peers : ReadMessage(p)
    \/ \E p \in Peers : ReadEof(p)
    \/ \E p \in Peers : Write(p)
    \/ \E p \in Peers : WriteReset(p)
    \/ \E p \in Peers, i \in 1..MaxCalls + MaxNotify : HandlerStart(p, i)
    \/ \E p \in Peers, i \in 1..MaxCalls + MaxNotify : HandlerResume(p, i)

Init == RpcInit /\ SweepInit /\ EventInit

\* calls and notifications between two live peers
Next == SetupRegister \/ SetupServe \/ UseNotify \/ UseCall \/ Tasks
Spec == Init /\ [][Next]_vars

\* calls between two peers either of which the application may terminate
NextTerm == SetupRegister \/ SetupServe \/ UseCall \/ UseTerminate \/ Tasks
SpecTerm == Init /\ [][NextTerm]_vars

\* the event loop runs every task that is ready: the serve() coroutines and the readers
TasksFair ==
    \A p \in Peers :
        /\ WF_vars(ServeExit(p))
        /\ WF_vars(ReadMessage(p))
        /\ WF_vars(ReadEof(p))
SpecTermFair == SpecTerm /\ TasksFair
\* ... and the writers
SpecStopFair == SpecTermFair /\ \A p \in Peers : WF_vars(Write(p))

\* calls and notifications between two live peers whose writer tasks run
\* whenever they are ready
SpecWriterFair == Spec /\ \A p \in Peers : WF_vars(Write(p))

\* the applications also misuse the peers: operations on a terminated peer,
\* serve() called again, positional and named arguments mixed
ProbeInputs == {Input("sleep", <<>>, <<>>, <<>>), Input("name", <<"1">>, <<"b">>, <<"2">>)}

AnyRegister == \E p \in Peers : is_terminated[p] /\ register(p, "late", "name")
AnyServe == \E p \in Peers : SetupDone /\ Serve(p)
AnyTerminate == \E p \in Peers : Terminate(p)
AnyNotify ==
    \E p \in Notifiers, in \in ProbeInputs :
        /\ (SetupDone \/ is_terminated[p])
        /\ Notified(p) < MaxNotify
        /\ notify(p, in)
AnyCall ==
    \E p \in Callers, in \in ProbeInputs :
        /\ (SetupDone \/ is_terminated[p])
        /\ requests_next_id[p] < MaxCalls
        /\ call(p, in)
AnyEvents == \E p \in Consumers : is_terminated[p] /\ EventsAwait(p)
AnyIter == \E p \in Consumers : is_terminated[p] /\ IterNew(p)

NextAny ==
    \/ SetupRegister \/ SetupServe
    \/ AnyRegister \/ AnyServe \/ AnyTerminate
    \/ AnyNotify \/ AnyCall \/ AnyEvents \/ AnyIter
    \/ Tasks
SpecAny == Init /\ [][NextAny]_vars

\* Tests.test_event: handlers are subscribed (each once), the event is fired
\* and awaited in any order; an awaiting task or all of them may be cancelled
UseOn == \E h \in EventHandlers : h \notin event_log.subscribed /\ EventOn(h)
UseAwait == Len(event_futures) < MaxAwait /\ EventAwait
UseFire == \E value \in EventValues : Len(event_log.fired) < MaxFire /\ EventFire(value)
UseCancel == event_obj.futures # {} /\ EventCancel
UseAwaitCancelled == \E id \in 1..MaxAwait : AwaitCancelled(id)

NextEvent == UseOn \/ UseAwait \/ UseFire \/ UseCancel \/ UseAwaitCancelled
SpecEvent == Init /\ [][NextEvent]_vars

\* The other end of the connection need not be an RpcPeer: JSON objects that
\* are no request, no error and no result, as the reader may find them
\*   {}                                   {"id": 7}
\*   {"error": {"code": 1}, "id": 7}      {"method": "name", "params": "x", "id": 7}
\*   {"error": "oops", "id": 7}
RawLines ==
    {("junk" :> "{}"),
     ("junk" :> "{id}") @@ ("id" :> 7),
     ("junk" :> "{error.code,id}") @@ ("error" :> ("code" :> 1)) @@ ("id" :> 7),
     ("junk" :> "{method,params,id}") @@ ("method" :> "name")
        @@ ("params" :> [kind |-> "string", names |-> <<>>, args |-> <<>>]) @@ ("id" :> 7),
     ("junk" :> "{error,id}") @@ ("error" :> Scalar("oops")) @@ ("id" :> 7)}

RawWritten(p) == Len(SelectSeq(stream[p], LAMBDA obj : "junk" \in DOMAIN obj))

\* the program at p's end writes the line to the connection
WriteRaw(p, line) ==
    /\ ~closed[p]
    /\ stream' = [stream EXCEPT ![p] = Append(@, line)]
    /\ UNCHANGED <<handlers, requests, requests_next_id, write_queue, write_notify,
                   is_terminated, serve_task, events, futures, reader, writer, serve,
                   tasks, rpos, closed, awaiter, iter, submitted>>
    /\ last' = Quiet
    /\ UNCHANGED <<sweepvars, eventvars>>

UseRaw ==
    \E p \in Notifiers, line \in RawLines :
        SetupDone /\ RawWritten(p) < MaxRaw /\ WriteRaw(p, line)
RawCall ==
    \E p \in Callers, method \in {"name", "sleep"} :
        /\ SetupDone /\ ~is_terminated[p]
        /\ requests_next_id[p] < 1
        /\ call(p, Input(method, <<>>, <<>>, <<>>))

NextRaw == SetupRegister \/ SetupServe \/ UseRaw \/ RawCall \/ Tasks
SpecRaw == Init /\ [][NextRaw]_vars

\* The other end also writes responses of its own making: results and errors
\* for the ids of the calls (a second response for an id, or a response that
\* overtakes the handler's), for an id nobody used, and without any id
\*   {"result": "late", "id": i}     {"error": {"code": -32000, "message": "late"}, "id": i}
\*   {"result": "late"}              {"error": {"code": -32000, "message": "late"}}
ReplyIds == {0, 7}
ReplyResult(id) == ("result" :> "late") @@ Field(id # None, "id", id[1])
ReplyError(id) ==
    ("error" :> (("code" :> -32000) @@ ("message" :> "late"))) @@ Field(id # None, "id", id[1])
ReplyLines ==
    {ReplyResult(id) : id \in {None} \cup {Some(i) : i \in ReplyIds}}
        \cup {ReplyError(id) : id \in {None} \cup {Some(i) : i \in ReplyIds}}

Replied(p) == Len(SelectSeq(stream[p], LAMBDA obj : obj \in ReplyLines))

UseReply ==
    \E p \in Peers \ Callers, line \in ReplyLines :
        SetupDone /\ Replied(p) < MaxReply /\ WriteRaw(p, line)
\* the calling application: sleep() first, name() from then on
ReplyCall ==
    \E p \in Callers :
        /\ SetupDone /\ ~is_terminated[p]
        /\ requests_next_id[p] < MaxCalls
        /\ call(p, Input(IF requests_next_id[p] = 0 THEN "sleep" ELSE "name",
                         <<>>, <<>>, <<>>))
UseCallCancelled == \E p \in Callers, id \in 0..MaxCalls - 1 : CallCancelled(p, id)

NextReply ==
    SetupRegister \/ SetupServe \/ UseReply \/ ReplyCall \/ UseCallCancelled \/ Tasks
SpecReply == Init /\ [][NextReply]_vars
\* the event loop resumes a serve() coroutine whose gather() has ended
SpecReplyFair == SpecReply /\ \A p \in Peers : WF_vars(ServeExit(p))

\* Tests.test_rpc with its consumers: a task awaiting a.events, a task
\* iterating a (event_iter), b notifying and calling, a terminated at any time
EventInputs == {Input("name", <<>>, <<>>, <<>>), Input("missing", <<>>, <<>>, <<>>)}

EventsNotify ==
    \E p \in Notifiers, in \in EventInputs :
        /\ SetupDone /\ ~is_terminated[p]
        /\ Notified(p) < MaxEvents
        /\ notify(p, in)
EventsCall ==
    \E p \in Callers, method \in {"name", "sleep"} :
        /\ SetupDone /\ ~is_terminated[p]
        /\ requests_next_id[p] < 1
        /\ call(p, Input(method, <<>>, <<>>, <<>>))
EventsTerminate == \E p \in Consumers : SetupDone /\ ~is_terminated[p] /\ Terminate(p)
Consume ==
    \/ \E p \in Consumers : SetupDone /\ EventsAwait(p)
    \/ \E p \in Consumers : SetupDone /\ IterNew(p)
    \/ \E p \in Consumers : IterNext(p)
    \/ \E p \in Consumers : IterWake(p)

NextEvents ==
    \/ SetupRegister \/ SetupServe
    \/ EventsNotify \/ EventsCall \/ EventsTerminate
    \/ Consume \/ Tasks
SpecEvents == Init /\ [][NextEvents]_vars

\* the Sweep client of an application that extends the list once and binds a
\* key, with or without a handler, while the user selects and presses the key
Tags == {"t"}
MaxBind == 1

UseBind ==
    \E tag \in Tags, handler \in BOOLEAN, uid \in {None} :
        sweep_calls["bind"] < MaxBind /\ bind(tag, handler, uid)
OrderExtend ==
    \E its \in ExtendInputs, uid \in {None} :
        sweep_calls["items_extend"] < 1 /\ items_extend(its, uid)

\* either program runs: the two peers of Tests.test_rpc, or the Sweep client
PeersOnly == \A op \in DOMAIN sweep_calls : sweep_calls[op] = 0
SweepOnly == \A p \in Peers : handlers[p] = EmptyObj

NextOrder ==
    \/ PeersOnly /\ SetupRegister
    \/ PeersOnly /\ SetupServe
    \/ PeersOnly /\ EventsNotify
    \/ PeersOnly /\ Consume
    \/ PeersOnly /\ \E p \in Peers : ReadMessage(p)
    \/ PeersOnly /\ \E p \in Peers : Write(p)
    \/ PeersOnly /\ \E p \in Peers, i \in 1..MaxEvents : HandlerStart(p, i)
    \/ SweepOnly /\ OrderExtend
    \/ SweepOnly /\ UseBind
    \/ SweepOnly /\ ClientRead
    \/ SweepOnly /\ event_iter
    \/ SweepOnly /\ SweeperHandle
    \/ SweepOnly /\ SweeperSelect
    \/ SweepOnly /\ \E tag \in Tags : SweeperBind(tag)
SpecOrder == Init /\ [][NextOrder]_vars

\* the application of the Sweep client, its event loop and the sweeper
UseExtend ==
    \E its \in ExtendInputs, uid \in Uids :
        sweep_calls["items_extend"] < MaxExtend /\ items_extend(its, uid)
UseQuery ==
    \E method \in {"items_current", "items_marked"}, uid \in Uids :
        sweep_calls["query"] < MaxQuery /\ items_query(method, uid)
UseReturn == \E id \in 0..MaxExtend + MaxQuery : items_return(id)

\* the application replaces items of the windows it has extended, while the
\* sweeper shows one window or the other
MaxUpdate == 1
UpdateIndexes == -1..2
UpdateItems == {Item("candidate", "B"), Item("string", "t")}
UseUpdate ==
    \E index \in UpdateIndexes, item \in UpdateItems, uid \in Uids :
        sweep_calls["item_update"] < MaxUpdate /\ item_update(index, item, uid)
UpdateExtend ==
    \E uid \in Uids :
        /\ sweep_calls["items_extend"] < MaxExtend
        /\ items_extend(<<Item("candidate", "A"), Item("string", "s")>>, uid)

NextUpdate ==
    \/ UpdateExtend \/ UseUpdate
    \/ ClientRead \/ event_iter
    \/ SweeperHandle
    \/ \E w \in Windows : SweeperSwitch(w)
SpecUpdate == Init /\ [][NextUpdate]_vars

\* the application extends, clears and updates the lists of its windows
\* while the sweeper closes windows
MaxClear == 1
UseClear == \E uid \in Uids : sweep_calls["items_clear"] < MaxClear /\ items_clear(uid)
ClearUpdate ==
    \E index \in {0}, item \in UpdateItems, uid \in Uids :
        sweep_calls["item_update"] < MaxUpdate /\ item_update(index, item, uid)
NextClear ==
    \/ UpdateExtend \/ UseClear \/ ClearUpdate
    \/ ClientRead \/ event_iter
    \/ SweeperHandle
    \/ \E w \in Windows : SweeperClose(w)
SpecClear == Init /\ [][NextClear]_vars

\* a task extends the items of a window in several batches, while another
\* extends in one batch and the sweeper switches windows
BatchInput == <<Item("candidate", "A"), Item("string", "s"), Item("candidate", "B")>>
UseBatch ==
    \E uid \in Uids, n \in DOMAIN BatchInput :
        sweep_calls["items_extend"] < MaxExtend /\ items_extend_task(BatchInput, uid, n)
BatchNext == \E n \in DOMAIN BatchInput : items_extend_next(n)
NextBatch ==
    \/ UseBatch \/ BatchNext \/ UseExtend
    \/ ClientRead \/ event_iter
    \/ SweeperHandle
    \/ \E w \in Windows : SweeperSwitch(w)
SpecBatch == Init /\ [][NextBatch]_vars

\* the sweeper misses fields and views while the event stream is consumed;
\* the Sweep is constructed with any resolvers, the application registers
\* fields and views itself and sets or removes the field resolver
MaxRegister == 1
UseRegister ==
    \E kind \in Resolvers, ref \in Refs :
        sweep_calls["register"] < MaxRegister /\ field_register(kind, ref)
UseResolverSet == \E field_resolver \in BOOLEAN : field_resolver_set(field_resolver)
InitResolve ==
    RpcInit /\ EventInit /\ \E field_resolver, view_resolver \in BOOLEAN :
                                SweepNew(field_resolver, view_resolver)
NextResolve ==
    \/ \E kind \in Resolvers, ref \in {None} \cup {Some(r) : r \in Refs} :
            SweeperMissing(kind, ref)
    \/ UseRegister \/ UseResolverSet
    \/ ClientRead \/ event_iter \/ SweeperHandle
SpecResolve == InitResolve /\ [][NextResolve]_vars

\* a task runs a render_suppress scope whose body extends the items, ends in
\* any way and at any moment; the client may be terminated
SuppressBody ==
    \E its \in ExtendInputs :
        /\ sweep_slots.scope.pc = "body" /\ ~sweep_slots.terminated
        /\ sweep_calls["items_extend"] < MaxExtend
        /\ items_extend(its, sweep_slots.scope.uid)
NextSuppress ==
    \/ \E uid \in Uids : render_suppress(uid)
    \/ SuppressBody
    \/ \E how \in {"return", "raise", "cancel"} : render_suppress_exit(how)
    \/ sweep_terminate
    \/ ClientRead \/ SweeperHandle
SpecSuppress == Init /\ [][NextSuppress]_vars

\* the application shows a sub-selector of candidates, strings and JSON objects
QuickInputs == {<<Item("dict", "d"), Item("candidate", "A"), Item("candidate", "B")>>,
                <<Item("candidate", "A"), Item("string", "s")>>}
NextQuick ==
    \/ \E its \in QuickInputs, uid \in Uids : quick_select(its, uid)
    \/ quick_select_return
    \/ ClientRead \/ SweeperHandle
SpecQuick == Init /\ [][NextQuick]_vars

\* a task calls size() while the sweeper reports sizes and another task
\* consumes the event stream; every task that can run does run in the end
Sizes == {1, 2}
NextSize ==
    \/ size \/ size_resume
    \/ ClientRead \/ event_iter
    \/ \E n \in Sizes : SweeperResize(n)
SpecSize == Init /\ [][NextSize]_vars
SpecSizeFair ==
    /\ SpecSize
    /\ WF_vars(size_resume) /\ WF_vars(ClientRead) /\ WF_vars(event_iter)

NextSweep ==
    \/ UseExtend \/ UseQuery \/ UseReturn
    \/ ClientRead \/ event_iter
    \/ SweeperHandle \/ SweeperSelect
    \/ \E w \in Windows : SweeperSwitch(w)
    \/ \E w \in Windows : SweeperClose(w)
SpecSweep == Init /\ [][NextSweep]_vars

-----------------------------------------------------------------------------
(* Properties of the RPC peer                                              *)

\* the message the reader of p takes with its next line, as Some(message) or None
Incoming(p) ==
    IF rpos[p] < Len(stream[Other(p)]) THEN deserialize(stream[Other(p)][rpos[p] + 1])
    ELSE None

\* this step is the reader of p handling the request it has just read
ReadsRequest(p) ==
    /\ rpos'[p] = rpos[p] + 1
    /\ Incoming(p) # None
    /\ Incoming(p)[1].type = "request"

\* this step is the end of the handler task i of p
TaskEnds(p, i) ==
    /\ i \in DOMAIN tasks[p]
    /\ tasks'[p] = RemoveAt(tasks[p], i)

\* the messages p has read so far
Received(p) == [i \in 1..rpos[p] |-> deserialize(stream[Other(p)][i])[1]]

\* the value the handler of method returns when `peer` runs it
Returned(method, peer) == IF method = "name" THEN peer ELSE "done"

\* the call of this future reaches a handler that returns
ReachesReturn(f) ==
    f.registered /\ f.method \in {"name", "sleep"} /\ Binds(f.method, f.params)

\* the call of this future reaches a handler that raises, or does not bind to it
ReachesRaise(f) ==
    f.registered /\ (f.method = "fail" \/ ~Binds(f.method, f.params))

\* C1: every item handed to the application by items_current, items_marked
\* or a select event whose JSON bears a stamped index is the caller's object
\* that JSON was made from (the object stored at that index when the window
\* was extended); any other item is handed over as it came
C1_StampedItemIsTheSubmittedObject ==
    \A i \in DOMAIN given.items :
        LET item == given.items[i] IN
        IF item.json = "object" /\ item.index # None
        THEN given.values[i] = Item("candidate", item.target)
        ELSE given.values[i] = item

\* C2: a call to a method whose registered handler returns v, once its await
\* has completed on a peer that was not terminated, has completed with v, the
\* result of the response carrying the id allocated for the call
C2_CallCompletesWithHandlerValue ==
    \A p \in Peers : \A id \in DOMAIN futures[p] :
        LET f == futures[p][id] IN
        (ReachesReturn(f) /\ f.st \notin {"pending", "cancelled"})
            => (f.st = "result" /\ f.result = Returned(f.method, Other(p)))

\* C3: what the writer of a peer has put on its stream is, message by
\* message and in the same order, a prefix of what was submitted on that peer
C3_WrittenIsPrefixOfSubmitted ==
    \A p \in Peers :
        /\ Len(stream[p]) <= Len(submitted[p])
        /\ \A i \in 1..Len(stream[p]) : stream[p][i] = serialize(submitted[p][i])

\* a peer has written two messages and has a third one queued behind them
C3_Witness ==
    \E p \in Peers : Len(stream[p]) >= 2 /\ write_queue[p] # <<>>

\* C7: sending a notification leaves the sender's pending map alone, and the
\* receiver submits nothing for it: not when it reads it (no method-not-found),
\* and not when the handler task run for it ends (no result, no error)
C7_NotificationHasNoSlotAndNoResponse ==
    [][\A p \in Peers :
        /\ (/\ Len(submitted'[p]) = Len(submitted[p]) + 1
            /\ submitted'[p][Len(submitted'[p])].type = "request"
            /\ submitted'[p][Len(submitted'[p])].id = None)
                => (requests'[p] = requests[p] /\ futures'[p] = futures[p])
        /\ (ReadsRequest(p) /\ Incoming(p)[1].id = None)
                => submitted'[p] = submitted[p]
        /\ \A i \in DOMAIN tasks[p] :
                (TaskEnds(p, i) /\ tasks[p][i].request.id = None)
                    => submitted'[p] = submitted[p]
      ]_vars

\* a peer has read notifications for a method with a handler that raised and
\* for a method without a handler, every task has ended, nothing was submitted
C7_Witness ==
    \E p \in Peers :
        /\ \E i \in 1..rpos[p] : Received(p)[i] = RpcRequest("fail", NoParams, None)
        /\ tasks[p] = <<>>
        /\ submitted[p] = <<>>
        /\ requests[Other(p)] = {}

\* C8: a request with id i for a method without a handler makes the reader
\* submit exactly one method-not-found error with id i, spawn no task and
\* change nothing else of its peer; the call that sent it never completes
\* otherwise than with that error
C8_MissingMethodGetsMethodNotFound ==
    [][\A p \in Peers :
        /\ (/\ ReadsRequest(p)
            /\ Incoming(p)[1].id # None
            /\ Incoming(p)[1].method \notin DOMAIN handlers[p])
                => /\ submitted'[p] = Append(submitted[p],
                            method_not_found(Some(Incoming(p)[1].method), Incoming(p)[1].id))
                   /\ tasks'[p] = tasks[p]
                   /\ handlers'[p] = handlers[p]
                   /\ requests'[p] = requests[p]
                   /\ futures'[p] = futures[p]
                   /\ requests_next_id'[p] = requests_next_id[p]
                   /\ is_terminated'[p] = is_terminated[p]
        /\ \A id \in DOMAIN futures'[p] :
                LET f == futures'[p][id] IN
                (~f.registered /\ f.st \notin {"pending", "cancelled"})
                    => (f.st = "error" /\ f.error = method_not_found(Some(f.method), Some(id)))
      ]_vars

\* C10: a handler task that raises for a request with id i ends by submitting
\* exactly one error response carrying id i, and the call that sent the
\* request never completes otherwise than with an RPC error
C10_RaisingHandlerAnswersWithRequestId ==
    [][\A p \in Peers :
        /\ \A i \in DOMAIN tasks[p] :
                (/\ TaskEnds(p, i)
                 /\ tasks[p][i].request.id # None
                 /\ (tasks[p][i].handler = "fail"
                        \/ ~Binds(tasks[p][i].handler, tasks[p][i].request.params)))
                    => /\ Len(submitted'[p]) = Len(submitted[p]) + 1
                       /\ submitted'[p][Len(submitted'[p])].type = "error"
                       /\ submitted'[p][Len(submitted'[p])].id = tasks[p][i].request.id
                       /\ reader'[p] = reader[p]
        /\ \A id \in DOMAIN futures'[p] :
                LET f == futures'[p][id] IN
                (ReachesRaise(f) /\ f.st \notin {"pending", "cancelled"}) => f.st = "error"
      ]_vars

\* C4: the step that terminates a peer sets the flag, cancels every slot of
\* the pending map and empties the map; from then on the flag, the empty map
\* and the slots stay as they are, a further terminate() changes nothing at
\* all, and a slot that is filled or cancelled never changes again
C4_TerminateCancelsEachPendingOnce ==
    [][\A p \in Peers :
        /\ (~is_terminated[p] /\ is_terminated'[p])
                => /\ requests'[p] = {}
                   /\ DOMAIN futures'[p] = DOMAIN futures[p]
                   /\ \A id \in DOMAIN futures[p] :
                        IF id \in requests[p]
                        THEN futures[p][id].st = "pending" /\ futures'[p][id].st = "cancelled"
                        ELSE futures'[p][id] = futures[p][id]
        /\ is_terminated[p]
                => /\ is_terminated'[p]
                   /\ requests[p] = {} /\ requests'[p] = {}
                   /\ futures'[p] = futures[p]
        /\ (is_terminated[p] /\ last' = Outcome("terminate", p, "ok"))
                => UNCHANGED <<handlers, requests, requests_next_id, write_queue,
                               write_notify, is_terminated, serve_task, events, futures,
                               reader, writer, serve, tasks, stream, rpos, closed,
                               awaiter, iter, submitted>>
        /\ \A id \in DOMAIN futures[p] :
                futures[p][id].st # "pending"
                    => (id \in DOMAIN futures'[p] /\ futures'[p][id] = futures[p][id])
      ]_vars

\* terminate() returned on a peer one call of which had completed and another
\* was pending
C4_Witness ==
    \E p \in Peers :
        /\ is_terminated[p]
        /\ last = Outcome("terminate", p, "ok")
        /\ \E id \in DOMAIN futures[p] : futures[p][id].st = "cancelled"
        /\ \E id \in DOMAIN futures[p] : futures[p][id].st \in {"result", "error"}

\* C5: once a peer is terminated, every call of the other peer is eventually
\* resolved or cancelled
C5_TerminationResolvesCallsOfTheOther ==
    \A q \in Peers :
        is_terminated[q] ~>
            (\A id \in DOMAIN futures[Other(q)] : futures[Other(q)][id].st # "pending")

\* the application terminated a peer while the other had a call pending, and
\* that call ended cancelled by the other's own termination
C5_Witness ==
    \E q \in Peers :
        /\ is_terminated[q] /\ is_terminated[Other(q)]
        /\ serve[q] = "returned" /\ serve[Other(q)] = "returned"
        /\ \E id \in DOMAIN futures[Other(q)] : futures[Other(q)][id].st = "cancelled"

\* C6: on a terminated peer register, notify, call and serve raise
\* RuntimeError and leave the handler table, the pending map, the id counter
\* and the write queue as they were; `events` and the iteration of the peer
\* raise StopAsyncIteration and leave no task suspended on the event
C6_TerminatedPeerFailsFast ==
    [][\A p \in Peers :
        is_terminated[p] =>
            /\ \A in \in ProbeInputs :
                (register(p, "late", "name") \/ notify(p, in) \/ call(p, in) \/ Serve(p))
                    => /\ last'.peer = p
                       /\ last'.outcome = "RuntimeError"
                       /\ handlers'[p] = handlers[p]
                       /\ requests'[p] = requests[p]
                       /\ requests_next_id'[p] = requests_next_id[p]
                       /\ write_queue'[p] = write_queue[p]
            /\ (EventsAwait(p) \/ IterNew(p))
                    => /\ last'.peer = p
                       /\ last'.outcome = "StopAsyncIteration"
                       /\ events'[p] = events[p]
                       /\ awaiter'[p].st = "none" /\ iter'[p].st = "none"
      ]_vars

\* call() has just raised on a terminated peer that had started calls and
\* still has messages in its write queue
C6_Witness ==
    \E p \in Peers :
        /\ is_terminated[p]
        /\ last = Outcome("call", p, "RuntimeError")
        /\ requests_next_id[p] > 0
        /\ write_queue[p] # <<>>

\* C9: call() and notify() with positional and named arguments on a live peer
\* raise the invalid-params RpcError (-32602) and neither queue a message, nor
\* add an entry to the pending map, nor put anything on the stream
C9_MixedArgumentsRaiseLocally ==
    [][\A p \in Peers : \A in \in ProbeInputs :
        (/\ in.args # <<>> /\ in.names # <<>>
         /\ ~is_terminated[p]
         /\ (call(p, in) \/ notify(p, in)))
            => /\ last'.peer = p
               /\ last'.outcome = "RpcError"
               /\ last'.error.code = -32602
               /\ write_queue'[p] = write_queue[p]
               /\ submitted'[p] = submitted[p]
               /\ requests'[p] = requests[p]
               /\ futures'[p] = futures[p]
               /\ stream'[p] = stream[p]
      ]_vars

\* call() has just raised invalid-params on a live peer with a call pending
C9_Witness ==
    \E p \in Peers :
        /\ ~is_terminated[p]
        /\ last = Failed("call", p, invalid_params(Some("cannot mix args and kwargs"), None))
        /\ requests[p] # {}

-----------------------------------------------------------------------------
(* Properties of the notification stream                                   *)

\* the handler task the reader of p has just created for the request m
Spawned(p, m) ==
    /\ Len(tasks'[p]) = Len(tasks[p]) + 1
    /\ tasks'[p][Len(tasks'[p])].request = m
    /\ tasks'[p][Len(tasks'[p])].pc = "new"

\* C11: when the reader takes a request without id (a notification), the
\* durable subscriber of the event stream (the iterator's handler) receives it,
\* every pending awaiter (the task awaiting `events`, the iterator suspended in
\* __anext__) is completed with it, and a handler registered for its method
\* gets its task as well; when it takes a request with an id, the event stream
\* is left alone: no subscriber receives it, no awaiter completes
C11_OnlyNotificationsReachTheEventStream ==
    [][\A p \in Peers :
        ReadsRequest(p) =>
            LET m == Incoming(p)[1] IN
            IF m.id = None
            THEN /\ ("iter" \in events[p].handlers
                        => iter'[p].events = Append(iter[p].events, m))
                 /\ (awaiter[p].st = "pending"
                        => awaiter'[p] = [st |-> "done", value |-> m])
                 /\ (iter[p].st = "waiting" => iter'[p].st = "ready")
                 /\ (m.method \in DOMAIN handlers[p] => Spawned(p, m))
            ELSE /\ iter'[p] = iter[p]
                 /\ awaiter'[p] = awaiter[p]
                 /\ events'[p] = events[p]]_vars

\* a notification for a method with a handler has completed the awaiter, sits
\* in the iterator's buffer and has its handler task; and a call was answered
C11_Witness ==
    \E p \in Consumers :
        /\ awaiter[p].st = "done"
        /\ awaiter[p].value \in Range(iter[p].events)
        /\ \E i \in DOMAIN tasks[p] : tasks[p][i].request = awaiter[p].value
        /\ \E id \in DOMAIN futures[Other(p)] : futures[Other(p)][id].st = "result"

\* the notifications the reader of p has taken since the iterator was made
IterSeen(p) ==
    SelectSeq(SubSeq(Received(p), iter[p].since + 1, rpos[p]),
              LAMBDA m : m.type = "request" /\ m.id = None)

\* the notifications of the sweeper that the client's reader has not taken yet
Arriving == SelectSeq(to_client, LAMBDA m : m.kind = "notify")

\* C12: what an iterator over a peer's notifications has yielded, followed by
\* what it still buffers, is exactly the notifications the peer received since
\* the iterator was made, in arrival order (none lost, none twice, also those
\* that arrived while the consumer was not suspended in the iterator); and the
\* notifications (select, bind) event_iter of the Sweep client has taken,
\* followed by those waiting, are those the sweeper sent, in their order
C12_IteratorKeepsArrivalOrder ==
    /\ \A p \in Peers :
            iter[p].st # "none" => iter[p].yielded \o iter[p].events = IterSeen(p)
    /\ sweep_log.taken \o peer_iter \o Arriving = sweep_log.sent

\* the consumer took one notification and is busy while a different one that
\* arrived later waits in the buffer of its iterator
C12_Witness ==
    \E p \in Consumers :
        /\ iter[p].st = "idle"
        /\ Len(iter[p].yielded) = 1 /\ Len(iter[p].events) = 1
        /\ iter[p].yielded[1] # iter[p].events[1]

\* event_iter has taken a select and a bind event
SweepOrderSeen ==
    /\ Len(sweep_log.taken) = 2
    /\ {sweep_log.taken[1].method, sweep_log.taken[2].method} = {"select", "bind"}

-----------------------------------------------------------------------------
(* Properties of concurrent handlers                                       *)

\* a handler task of p for a request with an id is suspended in `await result`
Suspended(p, j) ==
    /\ j \in DOMAIN tasks[p]
    /\ tasks[p][j].pc = "await"
    /\ tasks[p][j].request.id # None

\* C13: while a handler task of a peer is suspended, (1) its reader still
\* takes the next request and dispatches it (a task for a method with a
\* handler, a method-not-found error otherwise) and the suspended task stays
\* as it is; (2) a task for a later request that ends meanwhile submits one
\* response, carrying the id of its own request, ahead of the response of the
\* suspended task; (3) a response that arrives completes the call of its id
\* and no other call
C13_SuspendedHandlerDoesNotBlockOthers ==
    [][\A p \in Peers :
        /\ \A j \in DOMAIN tasks[p] :
                (Suspended(p, j) /\ ReadsRequest(p) /\ Incoming(p)[1].id # None)
                    => LET m == Incoming(p)[1] IN
                       /\ tasks'[p][j] = tasks[p][j]
                       /\ IF m.method \in DOMAIN handlers[p] THEN Spawned(p, m)
                          ELSE submitted'[p] = Append(submitted[p],
                                    method_not_found(Some(m.method), m.id))
        /\ \A j \in DOMAIN tasks[p] : \A i \in DOMAIN tasks[p] :
                (Suspended(p, j) /\ j < i /\ TaskEnds(p, i) /\ tasks[p][i].request.id # None)
                    => /\ Len(submitted'[p]) = Len(submitted[p]) + 1
                       /\ submitted'[p][Len(submitted'[p])].id = tasks[p][i].request.id
                       /\ tasks'[p][j] = tasks[p][j]
        /\ \A id \in DOMAIN futures[p] :
                futures'[p][id] # futures[p][id]
                    => \/ is_terminated'[p]
                       \/ /\ Incoming(p) # None
                          /\ Incoming(p)[1].type \in {"result", "error"}
                          /\ Incoming(p)[1].id = Some(id)
      ]_vars

\* the call of sleep() is still pending, its handler suspended, while a call
\* made after it has completed with its result
C13_SleepOvertaken ==
    \E p \in Callers :
        /\ 0 \in DOMAIN futures[p] /\ 1 \in DOMAIN futures[p]
        /\ futures[p][0].method = "sleep" /\ futures[p][0].st = "pending"
        /\ futures[p][1].st = "result"
        /\ \E j \in DOMAIN tasks[Other(p)] : Suspended(Other(p), j)

-----------------------------------------------------------------------------
(* Properties of terminate() and the consumers of the notification stream  *)

\* this step terminates the peer p (terminate() called, or serve() ending)
TerminatesNow(p) == ~is_terminated[p] /\ is_terminated'[p]

\* the consumer's task is suspended inside RpcPeerIter.__anext__: it awaits
\* a future of the event stream ("waiting"), or that future has got its
\* notification and the task has not been resumed yet ("ready")
InAnext(p) == iter[p].st \in {"waiting", "ready"}

C15_SuspendedTaskEndsCancelled ==
    [][\A p \in Peers :
        (TerminatesNow(p) /\ InAnext(p)) => iter'[p].st = "cancelled"]_vars

\* C15 (amended): a task suspended in `async for` over a peer's notifications
\* whose awaited future is still pending when terminate() runs (no
\* notification has been delivered to it) ends cancelled and stays so; and a
\* consuming task is cancelled in no other way
C15_TaskAwaitingNotificationEndsCancelled ==
    [][\A p \in Peers :
        /\ (TerminatesNow(p) /\ iter[p].st = "waiting"
                /\ "iter" \in events[p].futures) => iter'[p].st = "cancelled"
        /\ (iter[p].st = "cancelled" => iter'[p] = iter[p])
        /\ (iter'[p].st = "cancelled" /\ iter[p].st # "cancelled")
                => (TerminatesNow(p) /\ iter[p].st = "waiting")
      ]_vars

\* Tests.test_rpc after a.terminate(): the task iterating a and the task
\* awaiting a.events are both cancelled
C15_Witness ==
    \E p \in Consumers :
        is_terminated[p] /\ iter[p].st = "cancelled" /\ awaiter[p].st = "cancelled"

-----------------------------------------------------------------------------
(* Properties of the reader on lines that are no RPC message               *)

\* the JSON object is a request, an error or a result
IsRequest(obj) == RpcRequest_deserialize(obj) # None
IsError(obj) ==
    /\ "error" \in DOMAIN obj
    /\ IsDict(obj["error"])
    /\ "code" \in DOMAIN obj["error"] /\ "message" \in DOMAIN obj["error"]
IsResult(obj) == "result" \in DOMAIN obj

\* the reader of p takes a line with this step
ReadsLine(p) == rpos'[p] = rpos[p] + 1
Line(p) == stream[Other(p)][rpos[p] + 1]

\* C16: a JSON object the reader takes that is neither a request, an error
\* nor a result makes it submit exactly one error -32600 (invalid request)
\* with the id of the object (null when it has none) and the text of the line
\* as data; the reader goes on (it has not ended) and the peer, live before,
\* is not terminated
C16_UnclassifiableGetsInvalidRequest ==
    [][\A p \in Peers :
        (/\ ReadsLine(p) /\ ~is_terminated[p]
         /\ ~IsRequest(Line(p)) /\ ~IsError(Line(p)) /\ ~IsResult(Line(p)))
            => /\ submitted'[p] = Append(submitted[p],
                        invalid_request(Some(decode(Line(p))), Get(Line(p), "id")))
               /\ reader'[p] = "run"
               /\ serve_task'[p] = serve_task[p]
               /\ is_terminated'[p] = is_terminated[p]
               /\ tasks'[p] = tasks[p]
      ]_vars

\* a reader has answered an object without members and gone on to answer one
\* that has an id
C16_TwoAnswered ==
    \E p \in Peers :
        /\ Len(submitted[p]) = 2 /\ reader[p] = "run"
        /\ submitted[p][1] = invalid_request(Some("{}"), None)
        /\ submitted[p][2].code = -32600 /\ submitted[p][2].id = Some(7)

-----------------------------------------------------------------------------
(* Event: fire, handlers and awaiters                                      *)

\* the step fires the Event with value
Fires(value) == event_log'.fired = Append(event_log.fired, value)
FireStep == \E value \in EventValues : Fires(value)
PendingAwaiters == {id \in DOMAIN event_futures :
                        id \in event_obj.futures /\ event_futures[id].st = "pending"}
Got(value) == [st |-> "result", value |-> value]

\* C17: a fire of an Event with a value calls every handler subscribed at that
\* moment exactly once with the value and gives the value, once, to every
\* awaiter pending at that moment; a handler that returned True stays
\* subscribed, so every later fire calls it again; an awaiter gets a result
\* only from a fire that comes after it was registered, and its result never
\* changes afterwards.
C17_FireReachesEveryHandlerAndAwaiterOnce ==
    [][/\ \A value \in EventValues : Fires(value) =>
            /\ \A h \in EventHandlers :
                    event_log'.calls[h] = IF h \in event_obj.handlers
                                          THEN Append(event_log.calls[h], value)
                                          ELSE event_log.calls[h]
            /\ \A id \in DOMAIN event_futures :
                    event_futures'[id] = IF id \in PendingAwaiters
                                         THEN Got(value) ELSE event_futures[id]
            /\ DOMAIN event_futures' = DOMAIN event_futures
            /\ \A h \in event_obj.handlers \cap Keeps : h \in event_obj'.handlers
       /\ ~FireStep =>
            /\ event_log'.calls = event_log.calls
            /\ \A id \in DOMAIN event_futures' :
                    event_futures'[id].st = "result"
                        => id \in DOMAIN event_futures /\ event_futures'[id] = event_futures[id]
       /\ \A id \in DOMAIN event_futures :
            event_futures[id].st = "result" => event_futures'[id] = event_futures[id]
      ]_vars

\* a handler that returned True was called by two fires, and an awaiter
\* registered after the first fire has the value of the second one
C17_Witness ==
    /\ Len(event_log.fired) >= 2
    /\ event_log.fired[1] # event_log.fired[2]
    /\ event_log.calls["total"] = event_log.fired
    /\ \E id \in DOMAIN event_futures : event_futures[id] = Got(event_log.fired[2])
    /\ \E id \in DOMAIN event_futures : event_futures[id] = Got(event_log.fired[1])

Drops == EventHandlers \ Keeps

\* C18: a handler that returns False or raises in a fire is called for that
\* fire and is not subscribed after it, so no later fire calls it; the fire
\* returns to its caller without an exception, and every other handler
\* subscribed and every awaiter pending get the value of that same fire.
C18_DroppedOrRaisingHandlerIsCalledOnce ==
    [][/\ \A value \in EventValues :
            (Fires(value) /\ event_obj.handlers \cap Drops # {}) =>
                /\ \A h \in event_obj.handlers \cap Drops :
                        /\ event_log'.calls[h] = Append(event_log.calls[h], value)
                        /\ h \notin event_obj'.handlers
                /\ event_log'.raised = ""
                /\ \A h \in event_obj.handlers :
                        event_log'.calls[h] = Append(event_log.calls[h], value)
                /\ \A id \in PendingAwaiters : event_futures'[id] = Got(value)
       /\ \A h \in Drops :
            (event_log.calls[h] # <<>> /\ h \notin event_obj.handlers)
                => event_log'.calls[h] = event_log.calls[h] \/ ~FireStep
       /\ \A h \in Drops : Len(event_log'.calls[h]) <= 1
      ]_vars

\* the raising and the dropping handler were called by the first fire only,
\* which also reached the other handler and an awaiter; a later fire followed
C18_Witness ==
    /\ Len(event_log.fired) = MaxFire
    /\ event_log.calls["bad"] = <<event_log.fired[1]>>
    /\ event_log.calls["once"] = <<event_log.fired[1]>>
    /\ event_log.calls["total"] = event_log.fired
    /\ \E id \in DOMAIN event_futures : event_futures[id] = Got(event_log.fired[1])

-----------------------------------------------------------------------------
(* Windows that were closed, and item_update                               *)

\* event_iter takes window_closed{to: w} in this step
ConsumesClosed(w) ==
    /\ peer_iter # <<>>
    /\ peer_iter' = Tail(peer_iter)
    /\ Head(peer_iter).method = "window_closed"
    /\ Head(peer_iter).uid = Some(w)

\* the items handed over are those of a select event, an items_current or an
\* items_marked result for the window w
RefersTo(w) ==
    /\ given.op \in {"select", "items_current", "items_marked"}
    /\ given.uid = Some(w)

\* C19: when the client consumes window_closed{to: w} the store of w is
\* dropped; from then on, until items are extended to w again, every item a
\* select event, an items_current or an items_marked result for w hands to
\* the application is the raw JSON item, never an object submitted before.
C19_ClosedWindowYieldsNoStaleObject ==
    [][\A w \in Windows :
        /\ ConsumesClosed(w) => items'[w] = <<>>
        /\ (RefersTo(w)' /\ w \in sweep_log'.closed)
                => \A i \in DOMAIN given'.items : given'.values[i] = given'.items[i]
      ]_vars

\* a result with stamped items for a window closed since was handed over
C19_ClosedWindowAsked ==
    \E w \in Windows :
        /\ RefersTo(w) /\ w \in sweep_log.closed
        /\ \E i \in DOMAIN given.items : given.items[i].index # None

\* the step is the call item_update(index, item, uid)
Updates(index, item, uid) ==
    /\ given'.op = "item_update"
    /\ given'.index = index /\ given'.values = <<item>> /\ given'.uid = uid
    /\ sweep_calls'["item_update"] = sweep_calls["item_update"] + 1

\* C20: item_update(index, item, uid) with an index that is negative or not
\* below the length of the store of the window fails with an error about the
\* index, sends nothing and leaves every store as it was; with a valid index
\* it puts the item at that index of the store of the window and sends one
\* item_update request with that index and the item (stamped with the index
\* when it is a candidate).
C20_ItemUpdateChecksTheIndexFirst ==
    [][\A index \in UpdateIndexes, item \in UpdateItems, uid \in Uids :
        Updates(index, item, uid) =>
            LET w == Named(uid) IN
            IF index < 0 \/ index >= Len(items[w])
            THEN /\ given'.raised \in {"IndexError", "AssertionError"}
                 /\ to_sweeper' = to_sweeper
                 /\ items' = items
            ELSE /\ given'.raised = ""
                 /\ items' = [items EXCEPT ![w][index + 1] = item]
                 /\ to_sweeper' = Append(to_sweeper,
                        [Request("item_update", uid, <<Batched(item, index)>>, peer_next_id)
                            EXCEPT !.index = index])
      ]_vars

\* an item of a window extended before was replaced and the request was sent
C20_Updated ==
    /\ given.op = "item_update" /\ given.raised = ""
    /\ \E i \in DOMAIN to_sweeper : to_sweeper[i].method = "item_update"

-----------------------------------------------------------------------------
(* Bind notifications                                                      *)

\* event_iter takes the bind notification {uid, tag} in this step
ConsumesBind(tag, uid) ==
    /\ peer_iter # <<>>
    /\ peer_iter' = Tail(peer_iter)
    /\ Head(peer_iter).method = "bind"
    /\ Head(peer_iter).tag = tag /\ Head(peer_iter).uid = Some(uid)
BindEvent(tag, uid) == [Given("bind", Some(uid), <<>>, <<>>) EXCEPT !.tag = tag]
SelectEvents(uid) == {Given("select_by_handler", Some(uid), <<>>, <<item>>) : item \in Items}
HandlerCalled(tag) == Len(sweep_log'.handled) = Len(sweep_log.handled) + 1
                        /\ sweep_log'.handled[Len(sweep_log'.handled)].tag = tag

\* C21 as stated: every bind notification consumed yields exactly one event:
\* with a handler for the tag the handler is called and the event is the
\* SweepSelect of the item it returned, or the SweepBind when it returned
\* None; without a handler the event is the SweepBind.
C21_EveryBindYieldsOneEvent ==
    [][\A tag \in Tags, uid \in Windows :
        ConsumesBind(tag, uid) =>
            IF tag \in binds
            THEN /\ HandlerCalled(tag)
                 /\ given' \in SelectEvents(uid) \cup {BindEvent(tag, uid)}
            ELSE /\ sweep_log'.handled = sweep_log.handled
                 /\ given' = BindEvent(tag, uid)
      ]_vars

\* C21, amended: a bind notification consumed without a handler for its tag
\* yields the SweepBind{uid, tag} and calls no handler; with a handler the
\* handler is called once and the stream yields the SweepSelect{uid, [item]}
\* of the item it returned, or no event at all when it returned None.
C21_BindYieldsAtMostOneEvent ==
    [][\A tag \in Tags, uid \in Windows :
        ConsumesBind(tag, uid) =>
            IF tag \in binds
            THEN /\ HandlerCalled(tag)
                 /\ LET item == sweep_log'.handled[Len(sweep_log'.handled)].item IN
                    given' = IF item = None THEN Nothing
                             ELSE Given("select_by_handler", Some(uid), <<>>, item)
            ELSE /\ sweep_log'.handled = sweep_log.handled
                 /\ given' = BindEvent(tag, uid)
      ]_vars

\* a handler took a bind notification and returned None: no event followed
C21_Witness ==
    /\ sweep_log.handled # <<>>
    /\ sweep_log.handled[1].item = None
    /\ sweep_log.taken[Len(sweep_log.taken)].method = "bind"
    /\ given = Nothing
    /\ peer_iter = <<>> /\ to_client = <<>>

-----------------------------------------------------------------------------
(* Resolvers                                                               *)

\* the calls of the resolver of kind for ref so far
ResolverCalls(kind, ref) ==
    SelectSeq(sweep_log.resolver, LAMBDA c : c.kind = kind /\ c.ref = ref)

\* C22: over any sequence of field_missing (view_missing) notifications the
\* field (view) resolver is called at most once for each ref, also after it
\* returned None for the ref.
C22_ResolverCalledAtMostOncePerRef ==
    \A kind \in Resolvers, ref \in Refs : Len(ResolverCalls(kind, ref)) <= 1

\* a ref was missed twice after its resolver had found it the first time
C22_MissedTwice ==
    \E kind \in Resolvers, ref \in Refs :
        /\ Len(SelectSeq(sweep_log.taken,
                LAMBDA e : e.method = kind \o "_missing" /\ e.ref = Some(ref))) = 2
        /\ Len(ResolverCalls(kind, ref)) = 1
        /\ ResolverCalls(kind, ref)[1].found

-----------------------------------------------------------------------------
(* The render_suppress scope                                               *)

\* the step appends a request to the messages for the sweeper
Sends == Len(to_sweeper') = Len(to_sweeper) + 1
Sent == to_sweeper'[Len(to_sweeper')]
SendsSuppress(suppress) ==
    Sends /\ Sent.method = "render_suppress" /\ Sent.suppress = suppress
ScopePc == sweep_slots.scope.pc

\* what C23 and its amended form share: the acquisition is sent exactly when
\* the scope is entered, the body sends only after the acquisition was
\* answered, a scope left from its body on a live peer sends the release,
\* and a release is sent once
ScopeBrackets ==
    /\ SendsSuppress(TRUE) <=> (ScopePc = "none" /\ ScopePc' = "acquiring")
    /\ (Sends /\ Sent.method = "items_extend") => (ScopePc = "body" /\ ScopePc' = "body")
    /\ (ScopePc = "body" /\ ScopePc' # "body" /\ ~sweep_slots'.terminated)
            => SendsSuppress(FALSE)
    /\ SendsSuppress(FALSE) => (ScopePc' = "releasing" /\ Sent.uid = sweep_slots.scope.uid)
    /\ ScopePc \in {"releasing", "done"} => ~Sends

\* C23 as stated: on a live peer a render_suppress scope sends one
\* render_suppress{suppress: true} before the messages of its body and one
\* render_suppress{suppress: false} after them, however the body ends, and a
\* release is sent only after an acquisition that succeeded.
C23_ReleaseOnlyAfterAcquisition ==
    [][/\ ScopeBrackets
       /\ SendsSuppress(FALSE) => ScopePc = "body"
      ]_vars

\* C23, amended: as above, but the release follows every acquisition that
\* was sent: also a task cancelled while it awaits the answer to the
\* acquisition sends the release on a live peer.
C23_ReleaseAfterEveryAcquisitionSent ==
    [][/\ ScopeBrackets
       /\ SendsSuppress(FALSE) => ScopePc \in {"acquiring", "body"}
       /\ (ScopePc = "acquiring" /\ ScopePc' \notin {"acquiring", "body"}
                /\ ~sweep_slots'.terminated) => SendsSuppress(FALSE)
      ]_vars

\* the body sent its items and raised: the release is the last message sent
C23_Witness ==
    /\ ScopePc = "releasing"
    /\ given.op = "render_suppress" /\ given.raised = "raise"
    /\ sweep_calls["items_extend"] > 0
    /\ to_sweeper # <<>>
    /\ to_sweeper[Len(to_sweeper)].method = "render_suppress"
    /\ ~to_sweeper[Len(to_sweeper)].suppress

-----------------------------------------------------------------------------
(* quick_select                                                            *)

\* C24: quick_select returns one entry for every item the sweeper reports as
\* selected, in the sweeper's order: the caller's object for an item that
\* was sent through to_candidate(), the item as it came for a string or a
\* JSON object of the caller; no selected item is left out.
C24_QuickSelectReturnsEverySelectedItem ==
    given.op = "quick_select" =>
        /\ Len(given.values) = Len(given.items)
        /\ \A i \in DOMAIN given.items :
                LET item == given.items[i] IN
                given.values[i] = IF item.json = "object" /\ item.index # None
                                  THEN Item("candidate", item.target)
                                  ELSE item

\* two candidates came back in the order the sweeper chose, the second first
C24_TwoCandidatesSelected ==
    /\ given.op = "quick_select"
    /\ given.values = <<Item("candidate", "B"), Item("candidate", "A")>>

-----------------------------------------------------------------------------
(* size()                                                                  *)

\* the resize notifications the reader of the client has taken, oldest first
ResizesRead ==
    SelectSeq(sweep_log.taken \o peer_iter, LAMBDA e : e.method = "resize")
SizeTask == sweep_slots.size_task

\* C25: size() returns the cached SweepSize without suspending when there is
\* one; otherwise it suspends, and once the peer has received the first
\* resize notification it returns in the end, with the size of that
\* notification, however its task and the task consuming the event stream
\* interleave.
C25_SizeReturnsAfterFirstResize ==
    /\ [][(SizeTask.pc = "none" /\ SizeTask'.pc # "none") =>
            IF sweep_slots.size # None
            THEN SizeTask' = [pc |-> "done", suspended |-> FALSE,
                              value |-> sweep_slots.size[1]]
            ELSE SizeTask'.pc = "waiting"]_vars
    /\ [](SizeTask.pc = "done" /\ SizeTask.suspended => SizeTask.value = ResizesRead[1].size)
    /\ (SizeTask.pc \in {"waiting", "ready"} /\ ResizesRead # <<>>) ~> (SizeTask.pc = "done")

\* the task returned from size() after it had waited for the resize
C25_Waited ==
    /\ SizeTask.pc = "done" /\ SizeTask.suspended
    /\ Len(ResizesRead) = 1
    /\ SizeTask.value = ResizesRead[1].size

-----------------------------------------------------------------------------
(* The writer: no lost wake-up                                             *)

\* the writer of p can go on: its stream is open and the peer is live
Writing(p) == ~is_terminated[p] /\ ~closed[Other(p)] /\ writer[p] \notin {"failed", "cancelled"}

\* C26: with the writer task run whenever it is ready, the stream open and
\* the peer not terminated, every message appended to the write queue is
\* written in the end (the queue is emptied, and only into the stream); the
\* queue is never non-empty while the writer is suspended on its wake-up
\* event, also for a message submitted while the writer is suspended in
\* drain().
C26_EverySubmittedMessageIsWritten ==
    /\ [](\A p \in Peers :
            (Writing(p) /\ writer[p] = "wait") => write_queue[p] = <<>>)
    /\ [][\A p \in Peers :
            write_queue'[p] = <<>> /\ write_queue[p] # <<>>
                => stream'[p] = stream[p] \o Serialized(write_queue[p])]_vars
    /\ \A p \in Peers :
            (write_queue[p] # <<>>) ~> (write_queue[p] = <<>> \/ ~Writing(p))

\* a message was submitted while the writer is suspended in drain()
C26_Witness ==
    \E p \in Peers :
        /\ Writing(p)
        /\ writer[p] = "drain"
        /\ stream[p] # <<>>
        /\ write_queue[p] # <<>>

-----------------------------------------------------------------------------
(* The reader on responses                                                 *)

\* the reader of p takes a response with this step: the line is no request
\* and deserializes to an error or a result
ReadsResponse(p) ==
    /\ ReadsLine(p)
    /\ ~IsRequest(Line(p)) /\ ~deserialize_raises(Line(p))
    /\ (IsError(Line(p)) \/ IsResult(Line(p)))
Response(p) == deserialize(Line(p))[1]
Orphan(message) == message.type = "error" /\ message.id = None
\* the future after the response was given to it
Filled(f, message) ==
    IF message.type = "error" THEN set_exception(f, message)
    ELSE set_result(f, message.result)

\* C27: a result (or an error with an id) the reader takes whose id i has an
\* entry in the pending map removes that entry and fills its future, still
\* pending, with the result (a future that is done already, its awaiting
\* task cancelled, is left as it is); no other entry and no other future
\* changes. A response whose id has no entry (an id never used, no id, or a
\* second response for an answered id) changes neither the pending map nor
\* a future, the event stream or the write queue, and the reader of a live
\* peer goes on.
C27_ResponseFillsItsSlotOnly ==
    [][\A p \in Peers :
        (ReadsResponse(p) /\ ~Orphan(Response(p))) =>
            LET message == Response(p) IN
            IF message.id # None /\ message.id[1] \in requests[p]
            THEN LET i == message.id[1] IN
                 /\ requests'[p] = requests[p] \ {i}
                 /\ DOMAIN futures'[p] = DOMAIN futures[p]
                 /\ futures'[p][i] = IF done(futures[p][i]) THEN futures[p][i]
                                     ELSE Filled(futures[p][i], message)
                 /\ \A j \in DOMAIN futures[p] \ {i} : futures'[p][j] = futures[p][j]
            ELSE /\ requests'[p] = requests[p]
                 /\ futures'[p] = futures[p]
                 /\ events'[p] = events[p]
                 /\ awaiter'[p] = awaiter[p] /\ iter'[p] = iter[p]
                 /\ write_queue'[p] = write_queue[p]
                 /\ submitted'[p] = submitted[p]
                 /\ ~is_terminated[p] =>
                        reader'[p] = "run" /\ serve_task'[p] = serve_task[p]
      ]_vars

\* the reader has taken two responses for the id 0, the second one after
\* the call was answered, and goes on; the call 1 is still waiting
C27_Witness ==
    \E p \in Peers :
        /\ reader[p] = "run" /\ ~is_terminated[p]
        /\ \E j, k \in 1..rpos[p] :
                /\ j < k
                /\ \A n \in {j, k} :
                        LET obj == stream[Other(p)][n] IN
                        IsResult(obj) /\ ~IsRequest(obj) /\ Get(obj, "id") = Some(0)
        /\ 0 \in DOMAIN futures[p] /\ futures[p][0].st = "result"
        /\ 0 \notin requests[p]
        /\ 1 \in requests[p] /\ futures[p][1].st = "pending"

\* C28: an error without id the reader takes fills no slot (pending map and
\* futures are as before) and is raised in the reader, which ends the
\* gather() of reader and writer with it; from then on the peer becomes
\* terminated, with an empty pending map and no future left pending (the
\* step that terminates the peer cancels every pending future of the map),
\* and serve() ends raising the RpcError.
C28_OrphanErrorEndsThePeer ==
    /\ [][\A p \in Peers :
            (ReadsResponse(p) /\ Orphan(Response(p))) =>
                /\ requests'[p] = requests[p] /\ futures'[p] = futures[p]
                /\ reader'[p] = "raised"
                /\ serve_task'[p] = "RpcError"
                /\ ~is_terminated'[p] /\ serve'[p] = "await"
       ]_vars
    /\ [][\A p \in Peers :
            (reader[p] = "raised" /\ TerminatesNow(p)) =>
                /\ requests'[p] = {}
                /\ \A id \in requests[p] :
                        futures[p][id].st = "pending" => futures'[p][id].st = "cancelled"
                /\ \A id \in DOMAIN futures'[p] : futures'[p][id].st # "pending"
                /\ serve'[p] = "raised"
       ]_vars
    /\ \A p \in Peers :
            (reader[p] = "raised") ~>
                (is_terminated[p] /\ requests[p] = {} /\ serve[p] = "raised"
                    /\ serve_task[p] = "RpcError")

\* serve() has raised the error without id its reader took, and a call that
\* was pending then is cancelled
C28_Witness ==
    \E p \in Peers :
        /\ rpos[p] > 0 /\ stream[Other(p)][rpos[p]] = ReplyError(None)
        /\ reader[p] = "raised" /\ serve[p] = "raised" /\ is_terminated[p]
        /\ \E id \in DOMAIN futures[p] : futures[p][id].st = "cancelled"
        /\ requests[p] = {}

-----------------------------------------------------------------------------
(* The end of a serving peer                                               *)

\* the task has ended
Stopped(task) == task \in {"cancelled", "failed", "raised"}
\* p is serving and on its way out: terminate() was called, its reader found
\* the end of input or its writer a connection reset (and not: its reader
\* raised an error)
Ending(p) ==
    /\ serve[p] = "await" /\ reader[p] # "raised"
    /\ is_terminated[p]
            \/ serve_task[p] \in {"cancelled", "CancelledError", "ConnectionResetError"}
\* what is left of p: flag set, no pending slot, no consumer waiting, serve()
\* returned
Ended(p) ==
    /\ is_terminated[p] /\ requests[p] = {}
    /\ \A id \in DOMAIN futures[p] : futures[p][id].st # "pending"
    /\ awaiter[p].st # "pending" /\ iter[p].st # "waiting"
    /\ serve[p] = "returned"

\* C29: a serving peer that terminate() was called on, whose reader found the
\* end of input or whose writer found the connection reset ends terminated,
\* with no slot and no consumer of the event stream left waiting and serve()
\* returned without raising; its reader task and its writer task both end;
\* a terminated peer writes nothing to its stream.
C29_EveryTerminationStopsBothTasks ==
    /\ [][\A p \in Peers : is_terminated[p] => stream'[p] = stream[p]]_vars
    /\ \A p \in Peers :
            Ending(p) ~> (Ended(p) /\ Stopped(reader[p]) /\ Stopped(writer[p]))

\* serve() has returned after the end of input and the writer task is still
\* suspended on its wake-up event, with no handler task left to wake it
C29_WriterLeftWaiting ==
    \E p \in Peers :
        /\ Ended(p) /\ Stopped(reader[p])
        /\ serve_task[p] = "CancelledError"
        /\ writer[p] = "wait"
        /\ tasks[p] = <<>>

-----------------------------------------------------------------------------
(* A call whose awaiting task is cancelled                                 *)

\* the future of call i is cancelled and its entry still in the map
Abandoned(p, i) ==
    i \in requests[p] /\ i \in DOMAIN futures[p] /\ futures[p][i].st = "cancelled"
\* the task awaiting call i is cancelled with this step (and not by terminate())
Abandons(p, i) ==
    /\ i \in DOMAIN futures[p] /\ futures[p][i].st = "pending"
    /\ futures'[p][i].st = "cancelled"
    /\ ~TerminatesNow(p)

\* C30: the cancellation of the task awaiting call i leaves the entry of i
\* in the pending map and submits no message (no cancel goes to the other
\* peer); the entry leaves the map only when the reader takes a response
\* with id i or the peer terminates; that late response removes the entry
\* of i only, changes no future (nobody gets it, no other call is resolved),
\* submits nothing and the reader of a live peer goes on without an error.
C30_AbandonedCallKeepsItsSlot ==
    [][\A p \in Peers : \A i \in 0..MaxCalls - 1 :
        /\ Abandons(p, i) =>
                /\ Abandoned(p, i)'
                /\ requests'[p] = requests[p]
                /\ submitted'[p] = submitted[p] /\ write_queue'[p] = write_queue[p]
        /\ (Abandoned(p, i) /\ i \notin requests'[p]) =>
                \/ TerminatesNow(p)
                \/ ReadsResponse(p) /\ Response(p).id = Some(i)
        /\ (Abandoned(p, i) /\ ReadsResponse(p) /\ Response(p).id = Some(i)) =>
                /\ requests'[p] = requests[p] \ {i}
                /\ futures'[p] = futures[p]
                /\ submitted'[p] = submitted[p] /\ write_queue'[p] = write_queue[p]
                /\ ~is_terminated[p] =>
                        reader'[p] = "run" /\ serve_task'[p] = serve_task[p]
      ]_vars

\* the response for a call whose task was cancelled has arrived: the entry
\* is gone, the future is cancelled as before, the reader goes on and the
\* other call still waits
C30_Witness ==
    \E p \in Peers : \E i, j \in 0..MaxCalls - 1 :
        /\ i \in DOMAIN futures[p] /\ futures[p][i].st = "cancelled"
        /\ i \notin requests[p]
        /\ ~is_terminated[p] /\ reader[p] = "run"
        /\ \E n \in 1..rpos[p] :
                LET obj == stream[Other(p)][n] IN
                ~IsRequest(obj) /\ IsResult(obj) /\ Get(obj, "id") = Some(i)
        /\ j \in requests[p] /\ futures[p][j].st = "pending"

-----------------------------------------------------------------------------
(* Request ids                                                             *)

\* the requests with an id that p has submitted, in order
CallsSubmitted(p) ==
    SelectSeq(submitted[p], LAMBDA m : m.type = "request" /\ m.id # None)

\* C31: the ids call() gives to its requests are strictly increasing and below
\* __requests_next_id, which never decreases (a call that fails locally for
\* mixed arguments uses an id up, none is given twice); every key of the
\* pending map is the id of exactly one request that was submitted.
C31_RequestIdsAreNeverReused ==
    /\ [](\A p \in Peers :
            LET calls == CallsSubmitted(p) IN
            /\ \A j, k \in DOMAIN calls : j < k => calls[j].id[1] < calls[k].id[1]
            /\ \A j \in DOMAIN calls : calls[j].id[1] < requests_next_id[p]
            /\ \A id \in requests[p] :
                    Cardinality({j \in DOMAIN calls : calls[j].id = Some(id)}) = 1)
    /\ [][\A p \in Peers :
            /\ requests_next_id'[p] >= requests_next_id[p]
            /\ \A id \in requests'[p] \ requests[p] :
                    /\ id = requests_next_id[p]
                    /\ requests_next_id'[p] = id + 1
                    /\ \E m \in Range(submitted'[p]) :
                            /\ m.type = "request" /\ m.id = Some(id)
                            /\ submitted'[p] = Append(submitted[p], m)
       ]_vars

\* a call that failed locally used the id 0 up: the call after it waits under
\* the id 1 and no request with the id 0 was ever submitted
C31_Witness ==
    \E p \in Peers :
        /\ requests[p] = {1}
        /\ ~is_terminated[p]
        /\ Len(CallsSubmitted(p)) = 1 /\ CallsSubmitted(p)[1].id = Some(1)

-----------------------------------------------------------------------------
(* The item store under items_clear                                        *)

\* the application calls items_clear with this step
Clears == sweep_calls'["items_clear"] = sweep_calls["items_clear"] + 1
\* event_iter consumes the window_closed notification of w with this step
ConsumesClosedOf(w) ==
    /\ peer_iter # <<>> /\ peer_iter' = Tail(peer_iter)
    /\ Head(peer_iter).method = "window_closed" /\ Head(peer_iter).uid = Some(w)

\* C33: items_clear(uid) appends one items_clear request with that uid to
\* the requests for the sweeper and changes the store of no window; the
\* store of a window gets shorter only in the step that consumes the
\* window_closed notification of that window.
C33_ItemsClearKeepsTheStore ==
    [][/\ Clears =>
            /\ items' = items
            /\ Len(to_sweeper') = Len(to_sweeper) + 1
            /\ SubSeq(to_sweeper', 1, Len(to_sweeper)) = to_sweeper
            /\ to_sweeper'[Len(to_sweeper')].method = "items_clear"
            /\ to_sweeper'[Len(to_sweeper')].uid = given'.uid
       /\ \A w \in Windows :
            Len(items'[w]) < Len(items[w]) => ConsumesClosedOf(w)
      ]_vars

\* the sweeper has cleared its list of the window "default", no window was
\* closed, and the client still holds the items of that window
C33_Witness ==
    /\ sweep_calls["items_clear"] = 1
    /\ to_sweeper = <<>> /\ to_client = <<>>
    /\ sweeper_emitted = 0
    /\ sweeper_items[StrId("default")] = <<>>
    /\ Len(items[StrId("default")]) = 2

\* C34: the store of a window changes only by appends (the old store is a
\* prefix of the new one), by an item_update that replaces entries in place
\* and by the removal of a closed window; items_clear empties the store of
\* the window it names, so that the next item extended gets the index 0.
C34_ItemsClearTruncatesTheStore ==
    [][/\ \A w \in Windows :
            \/ Len(items'[w]) >= Len(items[w])
                    /\ SubSeq(items'[w], 1, Len(items[w])) = items[w]
            \/ Len(items'[w]) = Len(items[w])
                    /\ sweep_calls'["item_update"] = sweep_calls["item_update"] + 1
            \/ ConsumesClosedOf(w)
            \/ Clears /\ w = Named(given'.uid) /\ items'[w] = <<>>
       /\ Clears => items'[Named(given'.uid)] = <<>>
      ]_vars

\* after items_clear the sweeper's list is empty and extended anew, and the
\* client has stamped the new candidate with an index beyond its position
C34_StampedBeyondTheList ==
    \E w \in Windows : \E k \in DOMAIN sweeper_items[w] :
        /\ sweep_calls["items_clear"] = 1
        /\ sweeper_items[w][k].index # None
        /\ sweeper_items[w][k].index[1] >= Len(sweeper_items[w])

-----------------------------------------------------------------------------
(* Items in flight                                                         *)

\* the JSON items on their way to the application that belong to window w:
\* in a select notification not consumed yet, in the result of an
\* items_current / items_marked call for w not handed to its caller yet
Queries == {"items_current", "items_marked"}
InFlight(w) ==
    UNION ({Range(to_client[n].items) : n \in {n \in DOMAIN to_client :
                \/ to_client[n].kind = "notify" /\ to_client[n].method = "select"
                        /\ to_client[n].uid = Some(w)
                \/ to_client[n].kind = "result"
                        /\ to_client[n].id \in DOMAIN peer_requests
                        /\ peer_requests[to_client[n].id].method \in Queries
                        /\ peer_requests[to_client[n].id].uid = Some(w)}}
        \cup {Range(peer_iter[n].items) : n \in {n \in DOMAIN peer_iter :
                peer_iter[n].method = "select" /\ peer_iter[n].uid = Some(w)}}
        \cup {Range(peer_requests[id].result) : id \in {id \in DOMAIN peer_requests :
                peer_requests[id].method \in Queries /\ peer_requests[id].uid = Some(w)}})

\* C32: an item JSON in flight for window w that is stamped with an index i
\* below the length of the store of w was made from the item at store[w][i],
\* or from the item that an item_update replaced there.
C32_InFlightIndexDenotesTheStoredItem ==
    \A w \in Windows : \A json \in InFlight(w) :
        (json.index # None /\ json.index[1] < Len(items[w])) =>
            \/ /\ ToCandidate(items[w][json.index[1] + 1])
               /\ items[w][json.index[1] + 1].name = json.target
            \/ <<w, json.index[1]>> \in sweep_log.updated


-----------------------------------------------------------------------------
(* The store and the sweeper's list                                        *)

\* nothing is under way between the client and the sweeper
Settled == to_sweeper = <<>> /\ to_client = <<>> /\ peer_iter = <<>>

\* the row of the sweeper's list was made from the item
RowOf(json, item) ==
    /\ json.target = item.name
    /\ (json.json = "string") = (item.kind = "string")
    /\ (json.index # None) = ToCandidate(item)

\* C36: once the sweeper has handled every request, the store of each window
\* and the sweeper's list of the window have the same length, and the item at
\* index k of the store is the one row k of the list was made from.
C36_StoreIndexIsTheSweepersPosition ==
    Settled =>
        \A w \in Windows :
            /\ Len(items[w]) = Len(sweeper_items[w])
            /\ \A k \in DOMAIN items[w] : RowOf(sweeper_items[w][k], items[w][k])

\* after items_clear and another items_extend the item at index 0 of the
\* store is not the one row 0 of the sweeper's list was made from
C36_RowsApart ==
    \E w \in Windows :
        /\ Settled
        /\ sweep_calls["items_clear"] = 1
        /\ sweeper_items[w] # <<>>
        /\ Len(items[w]) > Len(sweeper_items[w])

-----------------------------------------------------------------------------
(* The batches of items_extend                                             *)

RECURSIVE Flat(_)
Flat(seqs) == IF seqs = <<>> THEN <<>> ELSE Head(seqs) \o Flat(Tail(seqs))

\* the items of the requests the items_extend task has submitted, in order
Transmitted == Flat(sweep_log.batches)

\* C37: at every moment of an items_extend task the items of the requests
\* it has submitted so far are, in order, the JSON of the first items of its
\* input, each once, a candidate stamped with the index at which the store
\* holds it; the items not iterated yet are the rest of the input, no batch
\* sent is empty, and when the task returns all of the input has been sent.
C37_BatchesTransmitTheInputOnce ==
    LET task == sweep_slots.extend
        input == sweep_log.input
    IN
    task.pc # "none" =>
        /\ Len(Transmitted) <= Len(input)
        /\ task.rest = SubSeq(input, Len(Transmitted) + 1, Len(input))
        /\ \A i \in DOMAIN Transmitted :
                /\ RowOf(Transmitted[i], input[i])
                /\ Transmitted[i].index # None =>
                        /\ Transmitted[i].index[1] < Len(items[task.w])
                        /\ items[task.w][Transmitted[i].index[1] + 1] = input[i]
        /\ \A b \in DOMAIN sweep_log.batches : sweep_log.batches[b] # <<>>
        /\ task.pc = "done" => Len(Transmitted) = Len(input)

\* a task has returned from items_extend after more than one batch, and
\* another items_extend appended to the same store between two of them
C37_Witness ==
    /\ sweep_slots.extend.pc = "done"
    /\ Len(sweep_log.batches) >= 2
    /\ \E i \in DOMAIN Transmitted :
            /\ Transmitted[i].index # None
            /\ Transmitted[i].index[1] >= Len(sweep_log.input)

-----------------------------------------------------------------------------
(* The current window of the client and of the sweeper                     *)

\* the step calls items_extend, items_current or items_marked with uid omitted
CallsWithoutUid ==
    /\ Sends
    /\ Sent.kind = "request"
    /\ Sent.method \in {"items_extend"} \cup Queries
    /\ Sent.uid = None

\* C38: when items_extend, items_current or items_marked is called with uid
\* omitted, the current window the client tracks, whose store the call
\* appends to or reads, is the window the sweeper shows, to which it applies
\* the request.
C38_TrackerAgreesWithTheSweeper ==
    [][CallsWithoutUid => window_uid_current = sweeper_current]_vars

-----------------------------------------------------------------------------
(* Notifications buffered in an iterator when the peer terminates          *)

\* C39: the iteration over a peer's notifications does not end while the
\* iterator holds notifications it has buffered and not yielded: those
\* buffered when terminate() runs are yielded before the end of the stream.
C39_BufferedNotificationsAreYielded ==
    \A p \in Peers : iter[p].st = "stopped" => iter[p].events = <<>>

\* the iteration has ended after its first notification with another one
\* left in the iterator
C39_LeftInTheIterator ==
    \E p \in Consumers :
        iter[p].st = "stopped" /\ Len(iter[p].yielded) = 1 /\ Len(iter[p].events) = 1

-----------------------------------------------------------------------------
(* Operations and events that name their window                            *)

\* what the store of window w gives for a JSON item
Looked(w, json) ==
    IF json.json = "object" /\ json.index # None /\ json.index[1] < Len(items[w])
    THEN items[w][json.index[1] + 1]
    ELSE json

\* C40: an items_extend or item_update called with the id of window w writes
\* to no store but that of w, and the items of a select event for w, and of
\* items_current or items_marked called for w, are looked up in the store of
\* w, whatever the current window is and also for the window 0.
C40_TheWindowNamedIsTheWindowUsed ==
    [][\A w \in Windows :
            /\ (Sends /\ Sent.kind = "request" /\ Sent.uid = Some(w)
                    /\ Sent.method \in {"items_extend", "item_update"})
                    => /\ \A v \in Windows \ {w} : items'[v] = items[v]
                       /\ Len(items'[w]) = Len(items[w]) + Len(Sent.items)
                            \/ Sent.method = "item_update"
            /\ (given'.op \in {"select"} \cup Queries /\ given'.uid = Some(w))
                    => given'.values = [i \in DOMAIN given'.items |->
                                            Looked(w, given'.items[i])]
      ]_vars

-----------------------------------------------------------------------------
(* Missing fields and views that need no resolution                        *)

\* event_iter takes a field_missing or view_missing notification of the kind
TakesMissing(kind) ==
    /\ peer_iter # <<>>
    /\ Head(peer_iter).method = kind \o "_missing"
    /\ peer_iter' = Tail(peer_iter)
    /\ sweep_log'.taken = Append(sweep_log.taken, Head(peer_iter))

\* the ref of the notification is absent, or registered, or no resolver is set
NeedsNoResolution(kind) ==
    \/ Head(peer_iter).ref = None
    \/ Head(peer_iter).ref[1] \in sweep_slots.resolved[kind]
    \/ ~sweep_slots.resolver[kind]

\* C35: a field_missing or view_missing notification whose ref is absent or
\* already registered (by the application or by an earlier resolution), or
\* that arrives while no resolver is set, is consumed without a call of the
\* resolver, without a message to the sweeper and without an event for the
\* consumer of the stream
C35_RegisteredRefIsNotResolvedAgain ==
    [][\A kind \in Resolvers :
            TakesMissing(kind) /\ NeedsNoResolution(kind) =>
                /\ sweep_log'.resolver = sweep_log.resolver
                /\ to_sweeper' = to_sweeper
                /\ peer_requests' = peer_requests
                /\ given' = Nothing]_vars

\* a ref is registered, the stream gave a missing notification for it and
\* no resolver was ever called for it
C35_Witness ==
    \E kind \in Resolvers, ref \in Refs :
        /\ ref \in sweep_slots.resolved[kind]
        /\ ResolverCalls(kind, ref) = <<>>
        /\ \E i \in DOMAIN sweep_log.taken :
                /\ sweep_log.taken[i].method = kind \o "_missing"
                /\ sweep_log.taken[i].ref = Some(ref)
        /\ peer_iter = <<>> /\ to_sweeper = <<>> /\ to_client = <<>>

=============================================================================
